---- MODULE Spec2Model ----
(***************************************************************************)
(* Model of the content-creator-suite MCP adapters:                        *)
(*   idea-generator   (src/unnamed/part_000)                               *)
(*   growth-optimizer (src/unnamed/part_001, lines 18-612)                 *)
(*   script-to-video  (src/src/script-to-video/server.ts)                  *)
(*   shared logger / trace id (src/unnamed/part_001, lines 632-668)        *)
(*   shared schemas   (src/src/shared/types.ts)                            *)
(*                                                                         *)
(* Strings are modelled as sequences of chunks (<<"Unknown tool: ", n>>),  *)
(* so that template literals are concatenations and equality of strings    *)
(* is equality of sequences.  JSON numbers that a validator constrains     *)
(* with .int() are records [v, frac]: the value lies in [v, v+1) and is    *)
(* an integer exactly when frac is FALSE.                                  *)
(***************************************************************************)
EXTENDS Integers, Sequences, FiniteSets, TLC

VARIABLES
    calls,      \* per call slot: the state of one CallToolRequest handler run
    env,        \* process.env: the set of credential names that are set
    clock,      \* Date.now()
    files,      \* the files present under /tmp (paths written so far)
    served,     \* the number of invocation requests received so far
    fin,        \* posting-schedule development: the validated arguments
    fout,       \* posting-schedule development: the handler's result
    ideasText,  \* idea-filter development: the provider's text
    ideasOut,   \* idea-filter development: the handler's result
    trIn,       \* trend-scraper development: niche, platforms, source answers
    trOut,      \* trend-scraper development: the returned topics
    exIn,       \* export development: the arguments of the request
    exOut,      \* export development: the validation issues and the document
    registry,   \* per adapter: the TOOLS array, as the names of its descriptors
    listed      \* the discovery responses returned so far

vars == <<calls, env, clock, files, served, fin, fout, ideasText, ideasOut, trIn, trOut,
          exIn, exOut, registry, listed>>

-----------------------------------------------------------------------------
(* Bounds of the model                                                     *)

MaxCalls == 1
MaxClock == 1
MaxRand == 1
MaxSamples == 4
MaxIdeas == 5
MaxPosts == 2

-----------------------------------------------------------------------------
(* Generic helpers                                                         *)

Has(r, f) == f \in DOMAIN r

Without(r, f) == [k \in DOMAIN r \ {f} |-> r[k]]

With(r, f, v) == [k \in DOMAIN r \cup {f} |-> IF k = f THEN v ELSE r[k]]

Range(s) == {s[i] : i \in DOMAIN s}

Num(n) == [v |-> n, frac |-> FALSE]

NumFrac(n) == [v |-> n, frac |-> TRUE]

None == [none |-> TRUE]

-----------------------------------------------------------------------------
(* Tool registries: the names of the descriptors, in declaration order     *)

IDEA_GENERATOR_TOOLS == <<"generate_viral_ideas", "analyze_trending_topics", "predict_virality">>

GROWTH_OPTIMIZER_TOOLS ==
    <<"optimize_seo", "generate_thumbnail_concepts", "optimize_posting_schedule",
      "repurpose_content", "run_ab_test">>

SCRIPT_TO_VIDEO_TOOLS ==
    <<"generate_video_script", "generate_storyboard", "generate_voiceover",
      "export_editing_project">>

Adapters == {"idea", "growth", "script"}

Registry(adapter) ==
    CASE adapter = "idea" -> IDEA_GENERATOR_TOOLS
      [] adapter = "growth" -> GROWTH_OPTIMIZER_TOOLS
      [] adapter = "script" -> SCRIPT_TO_VIDEO_TOOLS

Credentials == {"GEMINI_API_KEY", "ELEVENLABS_API_KEY", "HUGGINGFACE_API_KEY"}

-----------------------------------------------------------------------------
(* Argument validators (zod schemas).  Each XxxIssues(raw) is the list of  *)
(* issues zod reports, in schema field order; the record is valid exactly  *)
(* when the list is empty.  Each XxxParse(raw) is the normalised record    *)
(* (declared defaults filled in).                                          *)

Issue(code, field) == [code |-> code, path |-> <<field>>]

ReqIssue(raw, f) == IF Has(raw, f) THEN <<>> ELSE <<Issue("invalid_type", f)>>

EnumIssue(raw, f, allowed) ==
    IF ~Has(raw, f) THEN <<Issue("invalid_type", f)>>
    ELSE IF raw[f] \in allowed THEN <<>>
    ELSE <<Issue("invalid_enum_value", f)>>

OptEnumIssue(raw, f, allowed) ==
    IF ~Has(raw, f) \/ raw[f] \in allowed THEN <<>>
    ELSE <<Issue("invalid_enum_value", f)>>

EnumArrayIssue(raw, f, allowed) ==
    IF ~Has(raw, f) THEN <<Issue("invalid_type", f)>>
    ELSE IF Range(raw[f]) \subseteq allowed THEN <<>>
    ELSE <<Issue("invalid_enum_value", f)>>

\* the bounds read as exclusive: .gt(lo).lt(hi) in place of .min(lo).max(hi)
IntRangeIssueOfExclusive(n, f, lo, hi) ==
    (IF n.frac THEN <<Issue("invalid_type", f)>> ELSE <<>>)
    \o (IF n.v <= lo THEN <<Issue("too_small", f)>> ELSE <<>>)
    \o (IF (IF n.frac THEN n.v + 1 ELSE n.v) >= hi THEN <<Issue("too_big", f)>> ELSE <<>>)

IntRangeIssueOf(n, f, lo, hi) ==
    (IF n.frac THEN <<Issue("invalid_type", f)>> ELSE <<>>)
    \o (IF n.v < lo THEN <<Issue("too_small", f)>> ELSE <<>>)
    \o (IF (IF n.frac THEN n.v + 1 ELSE n.v) > hi THEN <<Issue("too_big", f)>> ELSE <<>>)

IntRangeIssue(raw, f, lo, hi) ==
    IF ~Has(raw, f) THEN <<Issue("invalid_type", f)>>
    ELSE IntRangeIssueOf(raw[f], f, lo, hi)

OptIntRangeIssue(raw, f, lo, hi) ==
    IF ~Has(raw, f) THEN <<>> ELSE IntRangeIssueOf(raw[f], f, lo, hi)

Default(raw, f, d) == IF Has(raw, f) THEN raw[f] ELSE d

IdeaPlatformsAll == {"youtube", "tiktok", "instagram-reels", "youtube-shorts", "all"}

VideoPlatforms == {"youtube", "tiktok", "instagram-reels", "youtube-shorts"}

TrendPlatforms == {"youtube", "tiktok", "twitter", "reddit", "google-trends"}

GrowthPlatforms == {"youtube", "tiktok", "instagram"}

SchedulePlatforms == {"youtube", "tiktok", "instagram", "twitter"}

CountMin == 10

CountMax == 50

VariantsMin == 2

VariantsMax == 5

GenerateIdeasArgsIssues(raw) ==
    ReqIssue(raw, "niche")
    \o EnumIssue(raw, "platform", IdeaPlatformsAll)
    \o IntRangeIssue(raw, "count", CountMin, CountMax)
    \o OptEnumIssue(raw, "trendWindow", {"24h", "7d", "30d"})

GenerateIdeasArgsParse(raw) ==
    [niche |-> raw.niche, platform |-> raw.platform, count |-> raw.count,
     trendWindow |-> Default(raw, "trendWindow", "7d")]

AnalyzeTrendsArgsIssues(raw) ==
    ReqIssue(raw, "niche") \o EnumArrayIssue(raw, "platforms", TrendPlatforms)

AnalyzeTrendsArgsParse(raw) == [niche |-> raw.niche, platforms |-> raw.platforms]

PredictViralityArgsIssues(raw) ==
    ReqIssue(raw, "title") \o ReqIssue(raw, "description")
    \o EnumIssue(raw, "platform", VideoPlatforms) \o ReqIssue(raw, "niche")

PredictViralityArgsParse(raw) ==
    [title |-> raw.title, description |-> raw.description,
     platform |-> raw.platform, niche |-> raw.niche]

OptimizeSEOArgsIssues(raw) ==
    ReqIssue(raw, "title") \o ReqIssue(raw, "description")
    \o EnumIssue(raw, "platform", GrowthPlatforms) \o ReqIssue(raw, "niche")

OptimizeSEOArgsParse(raw) ==
    [f \in DOMAIN raw \cap {"title", "description", "platform", "niche", "targetAudience"}
        |-> raw[f]]

GenerateThumbnailArgsIssues(raw) ==
    ReqIssue(raw, "title") \o EnumIssue(raw, "platform", GrowthPlatforms)
    \o OptEnumIssue(raw, "style",
           {"minimalist", "bold-text", "reaction-face", "before-after", "mystery"})

GenerateThumbnailArgsParse(raw) ==
    [f \in DOMAIN raw \cap {"title", "platform", "niche", "style"} |-> raw[f]]

OptimizeScheduleArgsIssues(raw) ==
    EnumIssue(raw, "platform", SchedulePlatforms) \o ReqIssue(raw, "timezone")

OptimizeScheduleArgsParse(raw) ==
    [f \in DOMAIN raw \cap {"platform", "timezone", "audienceDemographics",
                             "historicalPerformance"} |-> raw[f]]

RepurposeContentArgsIssues(raw) ==
    ReqIssue(raw, "videoTranscript") \o ReqIssue(raw, "videoDuration")
    \o EnumArrayIssue(raw, "targetPlatforms",
           {"tiktok", "instagram-reels", "youtube-shorts", "twitter"})

RepurposeContentArgsParse(raw) ==
    [videoTranscript |-> raw.videoTranscript, videoDuration |-> raw.videoDuration,
     targetPlatforms |-> raw.targetPlatforms,
     clipDuration |-> Default(raw, "clipDuration", 45)]

RunABTestArgsIssues(raw) ==
    EnumIssue(raw, "element", {"thumbnail", "title", "hook"})
    \o ReqIssue(raw, "original")
    \o OptIntRangeIssue(raw, "variants", VariantsMin, VariantsMax)
    \o EnumIssue(raw, "platform", GrowthPlatforms)

RunABTestArgsParse(raw) ==
    [element |-> raw.element, original |-> raw.original,
     variants |-> Default(raw, "variants", Num(3)), platform |-> raw.platform]

GenerateScriptIdeaIssues(raw) ==
    IF ~Has(raw, "idea") THEN <<Issue("invalid_type", "idea")>>
    ELSE ReqIssue(raw.idea, "title") \o ReqIssue(raw.idea, "hook")
         \o EnumIssue(raw.idea, "platform", VideoPlatforms)
         \o ReqIssue(raw.idea, "duration")

GenerateScriptArgsIssues(raw) ==
    GenerateScriptIdeaIssues(raw)
    \o OptEnumIssue(raw, "tone",
           {"energetic", "educational", "casual", "professional", "humorous"})

GenerateScriptArgsParse(raw) ==
    [idea |-> raw.idea, tone |-> Default(raw, "tone", "casual"),
     includeVoiceover |-> Default(raw, "includeVoiceover", TRUE),
     includeBRoll |-> Default(raw, "includeBRoll", TRUE)]

GenerateStoryboardArgsIssues(raw) ==
    ReqIssue(raw, "script") \o EnumIssue(raw, "platform", VideoPlatforms)
    \o OptEnumIssue(raw, "visualStyle",
           {"talking-head", "b-roll-heavy", "screen-record", "animated", "hybrid"})

GenerateStoryboardArgsParse(raw) ==
    [script |-> raw.script, platform |-> raw.platform,
     visualStyle |-> Default(raw, "visualStyle", "hybrid")]

GenerateVoiceoverArgsIssues(raw) ==
    ReqIssue(raw, "script")
    \o OptEnumIssue(raw, "provider", {"elevenlabs", "huggingface"})
    \o OptEnumIssue(raw, "format", {"mp3", "wav"})

GenerateVoiceoverArgsParse(raw) ==
    [script |-> raw.script, voice |-> Default(raw, "voice", "neutral"),
     provider |-> Default(raw, "provider", "huggingface"),
     format |-> Default(raw, "format", "mp3")]

ExportProjectArgsIssues(raw) ==
    ReqIssue(raw, "storyboard")
    \o EnumIssue(raw, "format", {"fcpxml", "premiere-xml", "davinci-xml"})

ExportProjectArgsParse(raw) ==
    [f \in DOMAIN raw \cap {"storyboard", "voiceoverPath", "bRollSuggestions", "format"}
        |-> raw[f]]

\* The inputSchema of each tool descriptor (JSON Schema), as written in the
\* TOOLS arrays: type, enum, minimum, maximum, default, items, properties,
\* required.
IdeaInputSchema(name) ==
    CASE name = "generate_viral_ideas" ->
            [type |-> "object",
             properties |->
                [niche |-> [type |-> "string"],
                 platform |-> [type |-> "string", enum |-> IdeaPlatformsAll],
                 count |-> [type |-> "number", minimum |-> 10, maximum |-> 50],
                 trendWindow |-> [type |-> "string", enum |-> {"24h", "7d", "30d"}]],
             required |-> {"niche", "platform", "count"}]
      [] name = "analyze_trending_topics" ->
            [type |-> "object",
             properties |->
                [niche |-> [type |-> "string"],
                 platforms |-> [type |-> "array",
                                items |-> [type |-> "string", enum |-> TrendPlatforms]]],
             required |-> {"niche", "platforms"}]
      [] name = "predict_virality" ->
            [type |-> "object",
             properties |->
                [title |-> [type |-> "string"],
                 description |-> [type |-> "string"],
                 platform |-> [type |-> "string", enum |-> VideoPlatforms],
                 niche |-> [type |-> "string"]],
             required |-> {"title", "description", "platform", "niche"}]

GrowthInputSchema(name) ==
    CASE name = "optimize_seo" ->
            [type |-> "object",
             properties |->
                [title |-> [type |-> "string"],
                 description |-> [type |-> "string"],
                 platform |-> [type |-> "string", enum |-> GrowthPlatforms],
                 niche |-> [type |-> "string"],
                 targetAudience |-> [type |-> "string"]],
             required |-> {"title", "description", "platform", "niche"}]
      [] name = "generate_thumbnail_concepts" ->
            [type |-> "object",
             properties |->
                [title |-> [type |-> "string"],
                 platform |-> [type |-> "string", enum |-> GrowthPlatforms],
                 niche |-> [type |-> "string"],
                 style |-> [type |-> "string",
                            enum |-> {"minimalist", "bold-text", "reaction-face",
                                      "before-after", "mystery"}]],
             required |-> {"title", "platform"}]
      [] name = "optimize_posting_schedule" ->
            [type |-> "object",
             properties |->
                [platform |-> [type |-> "string", enum |-> SchedulePlatforms],
                 timezone |-> [type |-> "string"],
                 audienceDemographics |-> [type |-> "object"],
                 historicalPerformance |->
                    [type |-> "array", items |-> [type |-> "object"]]],
             required |-> {"platform", "timezone"}]
      [] name = "repurpose_content" ->
            [type |-> "object",
             properties |->
                [videoTranscript |-> [type |-> "string"],
                 videoDuration |-> [type |-> "number"],
                 targetPlatforms |->
                    [type |-> "array",
                     items |-> [type |-> "string",
                                enum |-> {"tiktok", "instagram-reels", "youtube-shorts",
                                          "twitter"}]],
                 clipDuration |-> [type |-> "number", default |-> 45]],
             required |-> {"videoTranscript", "videoDuration", "targetPlatforms"}]
      [] name = "run_ab_test" ->
            [type |-> "object",
             properties |->
                [element |-> [type |-> "string", enum |-> {"thumbnail", "title", "hook"}],
                 original |-> [type |-> "string"],
                 variants |-> [type |-> "number", default |-> 3],
                 platform |-> [type |-> "string", enum |-> GrowthPlatforms]],
             required |-> {"element", "original", "platform"}]

ScriptInputSchema(name) ==
    CASE name = "generate_video_script" ->
            [type |-> "object",
             properties |->
                [idea |-> [type |-> "object",
                           properties |->
                              [title |-> [type |-> "string"],
                               hook |-> [type |-> "string"],
                               platform |-> [type |-> "string", enum |-> VideoPlatforms],
                               duration |-> [type |-> "number"],
                               outline |-> [type |-> "array",
                                            items |-> [type |-> "object"]]],
                           required |-> {"title", "hook", "platform", "duration"}],
                 tone |-> [type |-> "string",
                           enum |-> {"energetic", "educational", "casual",
                                     "professional", "humorous"}],
                 includeVoiceover |-> [type |-> "boolean"],
                 includeBRoll |-> [type |-> "boolean"]],
             required |-> {"idea"}]
      [] name = "generate_storyboard" ->
            [type |-> "object",
             properties |->
                [script |-> [type |-> "string"],
                 platform |-> [type |-> "string", enum |-> VideoPlatforms],
                 visualStyle |-> [type |-> "string",
                                  enum |-> {"talking-head", "b-roll-heavy",
                                            "screen-record", "animated", "hybrid"}]],
             required |-> {"script", "platform"}]
      [] name = "generate_voiceover" ->
            [type |-> "object",
             properties |->
                [script |-> [type |-> "string"],
                 voice |-> [type |-> "string"],
                 provider |-> [type |-> "string", enum |-> {"elevenlabs", "huggingface"},
                               default |-> "huggingface"],
                 format |-> [type |-> "string", enum |-> {"mp3", "wav"},
                             default |-> "mp3"]],
             required |-> {"script"}]
      [] name = "export_editing_project" ->
            [type |-> "object",
             properties |->
                [storyboard |-> [type |-> "object"],
                 voiceoverPath |-> [type |-> "string"],
                 bRollSuggestions |-> [type |-> "array", items |-> [type |-> "string"]],
                 format |-> [type |-> "string",
                             enum |-> {"fcpxml", "premiere-xml", "davinci-xml"}]],
             required |-> {"storyboard", "format"}]

InputSchema(name) ==
    IF name \in Range(IDEA_GENERATOR_TOOLS) THEN IdeaInputSchema(name)
    ELSE IF name \in Range(GROWTH_OPTIMIZER_TOOLS) THEN GrowthInputSchema(name)
    ELSE ScriptInputSchema(name)

\* the descriptor a discovery response lists for a tool
Descriptor(name) == [name |-> name, inputSchema |-> InputSchema(name)]

\* JSON Schema validation of a value against a property schema without
\* nested properties: enum, minimum and maximum constrain, default does not
LeafAccepts(p, v) ==
    CASE p.type = "string" -> Has(p, "enum") => v \in p.enum
      [] p.type = "number" ->
            /\ Has(p, "minimum") => v.v >= p.minimum
            /\ Has(p, "maximum") => (IF v.frac THEN v.v + 1 ELSE v.v) <= p.maximum
      [] p.type = "array" -> Has(p.items, "enum") => Range(v) \subseteq p.items.enum
      [] OTHER -> TRUE

\* JSON Schema validation of an object: required members are present and
\* each declared member that is present conforms
ObjectAccepts(schema, v) ==
    /\ (IF Has(schema, "required") THEN schema.required ELSE {}) \subseteq DOMAIN v
    /\ Has(schema, "properties") =>
          \A f \in DOMAIN schema.properties \cap DOMAIN v :
              LET p == schema.properties[f]
              IN IF p.type = "object"
                 THEN /\ (IF Has(p, "required") THEN p.required ELSE {})
                            \subseteq DOMAIN v[f]
                      /\ Has(p, "properties") =>
                            \A g \in DOMAIN p.properties \cap DOMAIN v[f] :
                                LeafAccepts(p.properties[g], v[f][g])
                 ELSE LeafAccepts(p, v[f])

DescriptorAccepts(name, raw) == ObjectAccepts(InputSchema(name), raw)

\* the three TOOLS arrays as the module-level constants hold them at start;
\* an element is kept as the name of its descriptor literal
ToolArrays == [adapter \in Adapters |-> Registry(adapter)]

\* the descriptors of an array of tools
Descriptors(tools) == [i \in DOMAIN tools |-> Descriptor(tools[i])]

\* The schema each branch of the call handler parses the arguments with.
SchemaIssues(name, raw) ==
    CASE name = "generate_viral_ideas" -> GenerateIdeasArgsIssues(raw)
      [] name = "analyze_trending_topics" -> AnalyzeTrendsArgsIssues(raw)
      [] name = "predict_virality" -> PredictViralityArgsIssues(raw)
      [] name = "optimize_seo" -> OptimizeSEOArgsIssues(raw)
      [] name = "generate_thumbnail_concepts" -> GenerateThumbnailArgsIssues(raw)
      [] name = "optimize_posting_schedule" -> OptimizeScheduleArgsIssues(raw)
      [] name = "repurpose_content" -> RepurposeContentArgsIssues(raw)
      [] name = "run_ab_test" -> RunABTestArgsIssues(raw)
      [] name = "generate_video_script" -> GenerateScriptArgsIssues(raw)
      [] name = "generate_storyboard" -> GenerateStoryboardArgsIssues(raw)
      [] name = "generate_voiceover" -> GenerateVoiceoverArgsIssues(raw)
      [] name = "export_editing_project" -> ExportProjectArgsIssues(raw)

SchemaParse(name, raw) ==
    CASE name = "generate_viral_ideas" -> GenerateIdeasArgsParse(raw)
      [] name = "analyze_trending_topics" -> AnalyzeTrendsArgsParse(raw)
      [] name = "predict_virality" -> PredictViralityArgsParse(raw)
      [] name = "optimize_seo" -> OptimizeSEOArgsParse(raw)
      [] name = "generate_thumbnail_concepts" -> GenerateThumbnailArgsParse(raw)
      [] name = "optimize_posting_schedule" -> OptimizeScheduleArgsParse(raw)
      [] name = "repurpose_content" -> RepurposeContentArgsParse(raw)
      [] name = "run_ab_test" -> RunABTestArgsParse(raw)
      [] name = "generate_video_script" -> GenerateScriptArgsParse(raw)
      [] name = "generate_storyboard" -> GenerateStoryboardArgsParse(raw)
      [] name = "generate_voiceover" -> GenerateVoiceoverArgsParse(raw)
      [] name = "export_editing_project" -> ExportProjectArgsParse(raw)

-----------------------------------------------------------------------------
(* Provider text and JSON extraction.  A text is a sequence of tokens:     *)
(* "p" is prose, "{" "}" "[" "]" are the bracket characters, a key token   *)
(* is one member of an object ("clips" stands for "clips": [...]) and an   *)
(* idea token is one element of an array.                                  *)

KeyTok ==
    {"clips", "variants", "scenes", "shots", "overallScore", "seoScore", "error", "traceId",
     "clips:3", "clips:null"}

\* the key of the member a token stands for: "clips:3" is the member
\* "clips": 3 and "clips:null" the member "clips": null
MemberKey(k) == IF k \in {"clips:3", "clips:null"} THEN "clips" ELSE k

Null == [null |-> TRUE]

\* What JSON.parse yields for the member a key token stands for.
MemberValue(k) ==
    CASE k = "clips" -> <<"clip">>
      [] k = "variants" -> <<"variant">>
      [] k = "scenes" -> <<"scene">>
      [] k = "shots" -> <<"shot">>
      [] k = "error" -> <<"quota exceeded">>
      [] k = "traceId" -> <<"abc">>
      [] k = "clips:3" -> 3
      [] k = "clips:null" -> Null
      [] OTHER -> 85

JObj(f) == [kind |-> "object", members |-> f]

JArr(s) == [kind |-> "array", items |-> s]

EmptyMembers == [k \in {} |-> 0]

Positions(text, tok) == {i \in DOMAIN text : text[i] = tok}

MinOf(S) == CHOOSE x \in S : \A y \in S : x <= y

MaxOf(S) == CHOOSE x \in S : \A y \in S : x >= y

\* text.match(/\{[\s\S]*\}/) and text.match(/\[[\s\S]*\]/): leftmost opening
\* character that has a closing character after it, extended greedily to the
\* last closing character.
RegexMatch(text, open, close) ==
    LET os == Positions(text, open)
        cs == Positions(text, close)
    IN IF os # {} /\ cs # {} /\ MaxOf(cs) > MinOf(os)
       THEN [matched |-> TRUE, s |-> SubSeq(text, MinOf(os), MaxOf(cs))]
       ELSE [matched |-> FALSE, s |-> <<>>]

Inner(s) == SubSeq(s, 2, Len(s) - 1)

Throw(name, message) ==
    [ok |-> FALSE, error |-> [isError |-> TRUE, name |-> name, message |-> message]]

Ok(value) == [ok |-> TRUE, value |-> value]

\* of the members of an object text that share a key, JSON.parse keeps the last
LastMember(toks, k) ==
    toks[CHOOSE i \in DOMAIN toks :
            /\ MemberKey(toks[i]) = k
            /\ \A j \in DOMAIN toks : MemberKey(toks[j]) = k => j <= i]

\* JSON.parse on a matched region: an object of members, an array of
\* elements, or a SyntaxError for anything else (prose or stray brackets
\* inside the region).
JSONParse(s, ElemTok) ==
    IF Len(s) >= 2 /\ s[1] = "{" /\ s[Len(s)] = "}" /\ Range(Inner(s)) \subseteq KeyTok
    THEN Ok(JObj([k \in {MemberKey(t) : t \in Range(Inner(s))} |->
                    MemberValue(LastMember(Inner(s), k))]))
    ELSE IF Len(s) >= 2 /\ s[1] = "[" /\ s[Len(s)] = "]" /\ Range(Inner(s)) \subseteq ElemTok
    THEN Ok(JArr(Inner(s)))
    ELSE Throw("SyntaxError", <<"Unexpected token in JSON">>)

-----------------------------------------------------------------------------
(* ViralIdeaSchema (shared/types.ts).  An idea token names one element of  *)
(* the provider's array; the table gives the properties of the element     *)
(* that the schema looks at.  complete: the fields the schema only types   *)
(* (trendingTopics, targetAudience, thumbnailConcept, scriptOutline,       *)
(* estimatedViews, seo.keywords) are present; extra: the element carries a *)
(* key the schema does not declare.                                        *)

IdeaCategories ==
    {"education", "entertainment", "comedy", "tutorial", "review", "vlog",
     "gaming", "lifestyle", "tech", "fitness"}

GoodIdea ==
    [id |-> "a", titleLen |-> 10, hookLen |-> 10, platform |-> "youtube",
     category |-> "tech", viralScore |-> 0, tagsCount |-> 0, descLen |-> 0,
     datetime |-> TRUE, complete |-> TRUE, extra |-> FALSE]

IdeaTable ==
    [i1 |-> GoodIdea,
     i2 |-> [GoodIdea EXCEPT !.id = "b", !.titleLen = 100, !.hookLen = 200,
                             !.platform = "all", !.viralScore = 100,
                             !.tagsCount = 30, !.descLen = 500, !.extra = TRUE],
     i3 |-> [GoodIdea EXCEPT !.id = "c", !.titleLen = 9],
     i4 |-> [GoodIdea EXCEPT !.id = "d", !.viralScore = 101],
     i5 |-> [GoodIdea EXCEPT !.id = "e", !.category = "news"],
     i6 |-> [GoodIdea EXCEPT !.id = "f", !.complete = FALSE]]

IdeaTok == DOMAIN IdeaTable

TitleMin == 10

TitleMax == 100

HookMin == 10

HookMax == 200

ScoreMax == 100

TagsMax == 30

DescMax == 500

ViralIdeaValid(e) ==
    /\ e.titleLen >= TitleMin /\ e.titleLen <= TitleMax
    /\ e.hookLen >= HookMin /\ e.hookLen <= HookMax
    /\ e.platform \in IdeaPlatformsAll
    /\ e.category \in IdeaCategories
    /\ e.viralScore >= 0 /\ e.viralScore <= ScoreMax
    /\ e.tagsCount <= TagsMax
    /\ e.descLen <= DescMax
    /\ e.datetime
    /\ e.complete

\* ViralIdeaSchema.parse(idea): the element without undeclared keys.
ViralIdeaParse(e) == [e EXCEPT !.extra = FALSE]

\* a variant that gives up at the first element that fails to parse
ValidateIdeasUntilFailure(items) ==
    LET bad == {i \in DOMAIN items : ~ViralIdeaValid(IdeaTable[items[i]])}
        stop == IF bad = {} THEN Len(items) + 1 ELSE MinOf(bad)
    IN [i \in 1..(stop - 1) |-> ViralIdeaParse(IdeaTable[items[i]])]

\* ideas.map(idea => { try { return parse(idea) } catch { return null } })
\*      .filter(Boolean)
ValidateIdeas(items) ==
    LET mapped == [i \in DOMAIN items |->
                      IF ViralIdeaValid(IdeaTable[items[i]])
                      THEN ViralIdeaParse(IdeaTable[items[i]])
                      ELSE Null]
    IN SelectSeq(mapped, LAMBDA x : x # Null)

-----------------------------------------------------------------------------
(* Trend scraper (idea-generator).  A source answer is the outcome of one  *)
(* axios.get: it failed, or it succeeded with a response.  The scraper is  *)
(* written as the synchronous stretches between its two awaits, so that    *)
(* the call handler below can suspend at each await.                       *)

YouTubeTopics(niche) == <<niche \o <<" tutorial">>, niche \o <<" 2025">>, <<"best ">> \o niche>>

TwitterTopics(niche) == <<<<"#">> \o niche, niche \o <<" tips">>, niche \o <<" secrets">>>>

GoogleTopics(niche) ==
    <<<<"how to ">> \o niche, niche \o <<" for beginners">>, niche \o <<" vs">>,
      niche \o <<" mistakes">>>>

Lower(chunk) ==
    CASE chunk = "Tech" -> "tech"
      [] chunk = "AI News" -> "ai news"
      [] OTHER -> chunk

ToLowerCase(str) == [i \in DOMAIN str |-> Lower(str[i])]

\* posts.forEach(post => { if (post.data.title) trends.push(lower(title)) }):
\* a post without data throws inside the try block, which ends the loop and
\* keeps what was pushed before it.
RedditTitles(posts) ==
    LET bad == {i \in DOMAIN posts : ~posts[i].hasData}
        stop == IF bad = {} THEN Len(posts) + 1 ELSE MinOf(bad)
        seen == SubSeq(posts, 1, stop - 1)
        titled == SelectSeq(seen, LAMBDA q : q.title # <<>>)
    IN [i \in DOMAIN titled |-> ToLowerCase(titled[i].title)]

\* a variant that keeps the last occurrence of each topic
DedupKeepLast(trends) ==
    LET keep == {i \in DOMAIN trends :
                    \A j \in (i + 1)..Len(trends) : trends[j] # trends[i]}
        F[n \in 0..Len(trends)] ==
            IF n = 0 THEN <<>>
            ELSE IF n \in keep THEN Append(F[n - 1], trends[n]) ELSE F[n - 1]
    IN F[Len(trends)]

\* [...new Set(trends)]: the first occurrence of each topic, in order.
Dedup(trends) ==
    LET keep == {i \in DOMAIN trends : \A j \in 1..(i - 1) : trends[j] # trends[i]}
        F[n \in 0..Len(trends)] ==
            IF n = 0 THEN <<>>
            ELSE IF n \in keep THEN Append(F[n - 1], trends[n]) ELSE F[n - 1]
    IN F[Len(trends)]

Includes(arr, x) == x \in Range(arr)

\* after the reddit block: google-trends, then the return statement
ScrapeAfterReddit(trends, niche, platforms) ==
    Dedup(IF Includes(platforms, "google-trends")
          THEN trends \o GoogleTopics(niche) ELSE trends)

NetworkError == [isError |-> TRUE, name |-> "AxiosError", message |-> <<"Network Error">>]

\* a variant whose reddit request is not inside a try block
ScrapeOnRedditUncaught(trends, answer) ==
    IF answer.ok THEN Ok(trends \o RedditTitles(answer.posts))
    ELSE [ok |-> FALSE, error |-> NetworkError]

\* the reddit try block once axios.get has answered; the catch block logs
\* and lets the function go on
ScrapeOnReddit(trends, answer) ==
    IF answer.ok THEN Ok(trends \o RedditTitles(answer.posts)) ELSE Ok(trends)

\* after the youtube block: twitter, then up to the reddit await
ScrapeAfterYouTube(trends, niche, platforms) ==
    LET t == IF Includes(platforms, "twitter")
             THEN trends \o TwitterTopics(niche) ELSE trends
    IN IF Includes(platforms, "reddit")
       THEN [pc |-> "reddit", trends |-> t]
       ELSE [pc |-> "scraped", trends |-> ScrapeAfterReddit(t, niche, platforms)]

\* a variant whose youtube request is not inside a try block
ScrapeOnYouTubeUncaught(trends, niche, answer) ==
    IF answer.ok THEN Ok(trends \o YouTubeTopics(niche))
    ELSE [ok |-> FALSE, error |-> NetworkError]

\* the youtube try block once axios.get has answered; the catch block logs
\* and lets the function go on
ScrapeOnYouTube(trends, niche, answer) ==
    IF answer.ok THEN Ok(trends \o YouTubeTopics(niche)) ELSE Ok(trends)

\* from the entry of scrapeTrendingTopics up to the first await
ScrapeStart(niche, platforms) ==
    IF Includes(platforms, "youtube")
    THEN [pc |-> "youtube", trends |-> <<>>]
    ELSE ScrapeAfterYouTube(<<>>, niche, platforms)

\* The whole function, given the answers of the two fallible sources: the
\* returned topics, or the failure that left the function.
ScrapeTrendingTopics(niche, platforms, youtube, reddit) ==
    LET s0 == ScrapeStart(niche, platforms)
        y == ScrapeOnYouTube(s0.trends, niche, youtube)
    IN IF s0.pc = "youtube" /\ ~y.ok THEN y
       ELSE LET s1 == IF s0.pc = "youtube"
                      THEN ScrapeAfterYouTube(y.value, niche, platforms)
                      ELSE s0
                r == ScrapeOnReddit(s1.trends, reddit)
            IN IF s1.pc # "reddit" THEN Ok(s1.trends)
               ELSE IF ~r.ok THEN r
               ELSE Ok(ScrapeAfterReddit(r.value, niche, platforms))

-----------------------------------------------------------------------------
(* Posting-schedule optimizer (growth-optimizer)                           *)

NaN == 24

\* new Date(postTime).getHours(): the hour of day, NaN for an unparsable date
GetHours(postTime) ==
    CASE postTime = "2025-03-03T03:10" -> 3
      [] postTime = "2025-03-03T09:00" -> 9
      [] postTime = "2025-03-04T09:45" -> 9
      [] postTime = "2025-03-03T14:30" -> 14
      [] postTime = "2025-03-03T20:15" -> 20
      [] OTHER -> NaN

BaselineTimes(platform) ==
    CASE platform = "youtube" -> <<<<"14", ":00">>, <<"17", ":00">>, <<"20", ":00">>>>
      [] platform = "tiktok" -> <<<<"07", ":00">>, <<"12", ":00">>, <<"19", ":00">>>>
      [] platform = "instagram" -> <<<<"11", ":00">>, <<"13", ":00">>, <<"19", ":00">>>>
      [] platform = "twitter" -> <<<<"08", ":00">>, <<"12", ":00">>, <<"17", ":00">>>>

\* performanceByHour after the forEach: per hour the sums and the count
PerformanceByHour(samples) ==
    LET hours == {GetHours(samples[i].postTime) : i \in DOMAIN samples}
        At(h) == {i \in DOMAIN samples : GetHours(samples[i].postTime) = h}
        Sum[S \in SUBSET DOMAIN samples] ==
            IF S = {} THEN [views |-> 0, engagement |-> 0, count |-> 0]
            ELSE LET i == MinOf(S)
                     r == Sum[S \ {i}]
                 IN [views |-> r.views + samples[i].views,
                     engagement |-> r.engagement + samples[i].engagement,
                     count |-> r.count + 1]
    IN [h \in hours |-> Sum[At(h)]]

\* Object.entries(performanceByHour): integer keys ascending, then "NaN"
Entries(byHour) ==
    LET F[S \in SUBSET DOMAIN byHour] ==
            IF S = {} THEN <<>>
            ELSE LET h == MinOf(S) IN <<[hour |-> h, data |-> byHour[h]]>> \o F[S \ {h}]
    IN F[DOMAIN byHour]

\* a mean as the exact fraction sum / count
Avg(sum, count) == [n |-> sum, d |-> count]

\* the sign of b - a for two means (counts are positive)
Less(a, b) == a.n * b.d < b.n * a.d

HourStats(entry) ==
    [hour |-> entry.hour,
     avgViews |-> Avg(entry.data.views, entry.data.count),
     avgEngagement |-> Avg(entry.data.engagement, entry.data.count)]

\* a variant that ranks by mean views
SortByViews(list) ==
    LET Insert(sorted, x) ==
            LET before == {i \in DOMAIN sorted : ~Less(sorted[i].avgViews, x.avgViews)}
                k == IF before = DOMAIN sorted THEN Len(sorted)
                     ELSE MinOf(DOMAIN sorted \ before) - 1
            IN SubSeq(sorted, 1, k) \o <<x>> \o SubSeq(sorted, k + 1, Len(sorted))
        F[n \in 0..Len(list)] == IF n = 0 THEN <<>> ELSE Insert(F[n - 1], list[n])
    IN F[Len(list)]

\* a variant whose sort is not stable: an element goes before its equals
SortByEngagementUnstable(list) ==
    LET Insert(sorted, x) ==
            LET before == {i \in DOMAIN sorted : Less(x.avgEngagement, sorted[i].avgEngagement)}
                k == IF before = DOMAIN sorted THEN Len(sorted)
                     ELSE MinOf(DOMAIN sorted \ before) - 1
            IN SubSeq(sorted, 1, k) \o <<x>> \o SubSeq(sorted, k + 1, Len(sorted))
        F[n \in 0..Len(list)] == IF n = 0 THEN <<>> ELSE Insert(F[n - 1], list[n])
    IN F[Len(list)]

\* .sort((a, b) => b.avgEngagement - a.avgEngagement): stable, descending
SortByEngagement(list) ==
    LET Insert(sorted, x) ==
            LET before == {i \in DOMAIN sorted : ~Less(sorted[i].avgEngagement, x.avgEngagement)}
                k == IF before = DOMAIN sorted THEN Len(sorted)
                     ELSE MinOf(DOMAIN sorted \ before) - 1
            IN SubSeq(sorted, 1, k) \o <<x>> \o SubSeq(sorted, k + 1, Len(sorted))
        F[n \in 0..Len(list)] == IF n = 0 THEN <<>> ELSE Insert(F[n - 1], list[n])
    IN F[Len(list)]

TopCount == 3

TopHours(samples) ==
    LET entries == Entries(PerformanceByHour(samples))
        stats == [i \in DOMAIN entries |-> HourStats(entries[i])]
        sorted == SortByEngagement(stats)
    IN SubSeq(sorted, 1, IF Len(sorted) < TopCount THEN Len(sorted) ELSE TopCount)

\* `${h.hour.toString().padStart(2, '0')}:00`
TimeString(hour) ==
    IF hour = NaN THEN <<"NaN", ":00">>
    ELSE <<ToString(hour \div 10) \o ToString(hour % 10), ":00">>

\* a variant that fills the list up to three times from the baseline table
OptimalTimesPadded(args) ==
    IF Has(args, "historicalPerformance") /\ Len(args.historicalPerformance) > 0
    THEN LET top == TopHours(args.historicalPerformance)
             base == BaselineTimes(args.platform)
         IN [i \in DOMAIN base |->
                IF i <= Len(top) THEN TimeString(top[i].hour) ELSE base[i]]
    ELSE BaselineTimes(args.platform)

OptimalTimes(args) ==
    IF Has(args, "historicalPerformance") /\ Len(args.historicalPerformance) > 0
    THEN LET top == TopHours(args.historicalPerformance)
         IN [i \in DOMAIN top |-> TimeString(top[i].hour)]
    ELSE BaselineTimes(args.platform)

OptimizePostingSchedule(args) ==
    LET optimalTimes == OptimalTimes(args)
    IN [platform |-> args.platform,
        timezone |-> args.timezone,
        optimalPostingTimes |->
            [i \in DOMAIN optimalTimes |->
                [time |-> optimalTimes[i],
                 dayOfWeek |-> IF args.platform = "youtube"
                               THEN "Thursday/Friday" ELSE "Tuesday/Wednesday",
                 reason |-> "Peak audience activity based on analytics"]],
        frequency |-> IF args.platform = "youtube" THEN "2-3 videos/week"
                      ELSE IF args.platform = "tiktok" THEN "1-3 videos/day"
                      ELSE "1 post/day",
        avoidTimes |-> <<"02:00-06:00 (low activity)",
                         "During major events (unless relevant)">>,
        seasonalNotes |-> "Summer: -15% engagement. Holiday season: +30% engagement.",
        recommendation |-> <<"Post on ">> \o optimalTimes[1]
                           \o <<" ", args.timezone, " for maximum reach.">>]

-----------------------------------------------------------------------------
(* Inputs of the three function-level developments                         *)

NotRun == [run |-> FALSE]

Niches == {<<"tech">>}

\* views move against engagement, as in the documented sample
ViewsFor(engagement) ==
    CASE engagement = 50 -> 100
      [] engagement = 70 -> 300
      [] OTHER -> 50

\* the samples histories are made of: five hours of day (one of them from two
\* timestamps, one unparsable), with equal and unequal engagements
SamplePoints ==
    {<<"2025-03-03T09:00", 50>>, <<"2025-03-03T09:00", 70>>,
     <<"2025-03-04T09:45", 90>>, <<"2025-03-03T14:30", 90>>,
     <<"2025-03-03T14:30", 50>>, <<"2025-03-03T20:15", 70>>,
     <<"not a date", 70>>, <<"2025-03-03T03:10", 50>>}

SeqsUpTo(S, n) == UNION {[1..k -> S] : k \in 0..n}

Histories(n) ==
    {[i \in DOMAIN h |-> [postTime |-> h[i][1], engagement |-> h[i][2],
                          views |-> ViewsFor(h[i][2])]] :
        h \in SeqsUpTo(SamplePoints, n)}

ScheduleArgs(n) ==
    {[platform |-> p, timezone |-> "America/New_York"] : p \in SchedulePlatforms}
    \cup {[platform |-> "tiktok", timezone |-> "America/New_York",
           historicalPerformance |-> h] :
             h \in Histories(n)}

IdeaTexts(n) ==
    {<<"p">>, <<"p", "[", "p", "]">>, <<"[", "i1", "]", "p", "[", "i2", "]">>}
    \cup {<<"p", "[">> \o items \o <<"]", "p">> : items \in SeqsUpTo(IdeaTok, n)}

RedditPosts ==
    {[hasData |-> TRUE, title |-> <<"Tech", " tutorial">>],
     [hasData |-> TRUE, title |-> <<"AI News">>],
     [hasData |-> TRUE, title |-> <<>>],
     [hasData |-> FALSE, title |-> <<>>]}

RedditAnswers(n) ==
    {[ok |-> FALSE, posts |-> <<>>]}
    \cup {[ok |-> TRUE, posts |-> ps] : ps \in SeqsUpTo(RedditPosts, n)}

YouTubeAnswers == {[ok |-> TRUE], [ok |-> FALSE]}

\* the platform arrays: every subset of the enum, in enum order
PlatformArrays ==
    LET order == <<"youtube", "tiktok", "twitter", "reddit", "google-trends">>
    IN {SelectSeq(order, LAMBDA x : x \in S) : S \in SUBSET TrendPlatforms}

TrendInputs(n) ==
    [niche : Niches, platforms : PlatformArrays, youtube : YouTubeAnswers,
     reddit : RedditAnswers(n)]

-----------------------------------------------------------------------------
(* Handlers: the code of each handler after its provider call returned.    *)
(* Each yields Ok(result) or the failure it throws.                        *)

\* a variant that throws when nothing matches
ParseOrDefaultStrict(text, open, close, fallback) ==
    LET m == RegexMatch(text, open, close)
    IN IF m.matched THEN JSONParse(m.s, IdeaTok)
       ELSE Throw("Error", <<"Failed to extract JSON from AI response">>)

\* a variant that wraps JSON.parse in a try/catch which yields the fallback
ParseOrDefaultCatching(text, open, close, fallback) ==
    LET m == RegexMatch(text, open, close)
    IN IF m.matched /\ JSONParse(m.s, IdeaTok).ok THEN JSONParse(m.s, IdeaTok)
       ELSE Ok(fallback)

\* jsonMatch ? JSON.parse(jsonMatch[0]) : fallback
ParseOrDefault(text, open, close, fallback) ==
    LET m == RegexMatch(text, open, close)
    IN IF m.matched THEN JSONParse(m.s, IdeaTok) ELSE Ok(fallback)

GenerateViralIdeasFinish(text) ==
    LET ideas == ParseOrDefault(text, "[", "]", JArr(<<>>))
    IN IF ideas.ok THEN Ok(ValidateIdeas(ideas.value.items)) ELSE ideas

PredictViralityFinish(text) ==
    ParseOrDefault(text, "{", "}", JObj([overallScore |-> 50]))

OptimizeSEOFinish(text) == ParseOrDefault(text, "{", "}", JObj(EmptyMembers))

GenerateThumbnailConceptsFinish(text) ==
    LET concepts == ParseOrDefault(text, "[", "]", JArr(<<>>))
    IN IF concepts.ok
       THEN Ok([concepts |-> concepts.value,
                abTestRecommendation |-> "Test top 2 concepts for 48 hours, keep winner",
                toolSuggestions |-> <<"Canva", "Photoshop", "Figma",
                                      "Midjourney (for AI generation)">>])
       ELSE concepts

\* a variant that reads the length as the other handlers do: clips?.length || 0
RepurposeContentFinishGuarded(text) ==
    ParseOrDefault(text, "{", "}", JObj([clips |-> <<>>]))

\* repurposed.clips.length is read without a guard: the read throws on
\* undefined and on null, and yields undefined on a number
RepurposeContentFinish(text) ==
    LET repurposed == ParseOrDefault(text, "{", "}", JObj([clips |-> <<>>]))
        m == RegexMatch(text, "{", "}")
    IN IF ~repurposed.ok THEN repurposed
       ELSE IF ~Has(repurposed.value.members, "clips")
       THEN Throw("TypeError", <<"Cannot read properties of undefined (reading 'length')">>)
       ELSE IF m.matched /\ LastMember(Inner(m.s), "clips") = "clips:null"
       THEN Throw("TypeError", <<"Cannot read properties of null (reading 'length')">>)
       ELSE repurposed

RunABTestFinish(text) == ParseOrDefault(text, "{", "}", JObj([variants |-> <<>>]))

\* a variant of generateVideoScript that falls back to an empty script
GenerateVideoScriptFinishLenient(text) ==
    LET m == RegexMatch(text, "{", "}")
    IN IF ~m.matched THEN Ok(JObj([scenes |-> <<>>])) ELSE JSONParse(m.s, IdeaTok)

\* if (!jsonMatch) throw new Error('Failed to extract JSON from AI response')
GenerateVideoScriptFinish(text) ==
    LET m == RegexMatch(text, "{", "}")
    IN IF ~m.matched THEN Throw("Error", <<"Failed to extract JSON from AI response">>)
       ELSE JSONParse(m.s, IdeaTok)

GenerateStoryboardFinish(text) == ParseOrDefault(text, "{", "}", JObj([shots |-> <<>>]))

GeminiTools ==
    {"generate_viral_ideas", "predict_virality", "optimize_seo",
     "generate_thumbnail_concepts", "repurpose_content", "run_ab_test",
     "generate_video_script", "generate_storyboard"}

\* the handler's code from the return of model.generateContent on
AfterGemini(name, text) ==
    CASE name = "generate_viral_ideas" -> GenerateViralIdeasFinish(text)
      [] name = "predict_virality" -> PredictViralityFinish(text)
      [] name = "optimize_seo" -> OptimizeSEOFinish(text)
      [] name = "generate_thumbnail_concepts" -> GenerateThumbnailConceptsFinish(text)
      [] name = "repurpose_content" -> RepurposeContentFinish(text)
      [] name = "run_ab_test" -> RunABTestFinish(text)
      [] name = "generate_video_script" -> GenerateVideoScriptFinish(text)
      [] name = "generate_storyboard" -> GenerateStoryboardFinish(text)

\* the error each handler throws when GEMINI_API_KEY is not set
MissingGeminiKey(name) ==
    Throw(IF name \in {"generate_viral_ideas", "predict_virality"}
          THEN "TrendAnalysisError" ELSE "Error",
          <<"GEMINI_API_KEY", " not found">>)

\* analyzeTrends: volume and growth are Math.random() placeholders and are
\* left out of the result
AnalyzeTrendsResult(args, trends) ==
    [niche |-> args.niche, platforms |-> args.platforms,
     trends |-> [i \in DOMAIN trends |-> [topic |-> trends[i]]],
     topTrends |-> SubSeq(trends, 1, IF Len(trends) < 10 THEN Len(trends) ELSE 10)]

ChunkLen(chunk) ==
    CASE chunk = "Welcome back to the channel, today we " -> 38
      [] chunk = "build a robot." -> 14
      [] OTHER -> 1

StrLen(str) ==
    LET F[n \in 0..Len(str)] == IF n = 0 THEN 0 ELSE F[n - 1] + ChunkLen(str[n])
    IN F[Len(str)]

\* `/tmp/voiceover-${traceId}.${args.format}`
VoiceoverPath(traceId, format) == <<"/tmp/voiceover-">> \o traceId \o <<".", format>>

\* `/tmp/project-${traceId}.${format === 'fcpxml' ? 'fcpxml' : 'xml'}`
ProjectPath(traceId, format) ==
    <<"/tmp/project-">> \o traceId \o <<".", IF format = "fcpxml" THEN "fcpxml" ELSE "xml">>

VoiceoverResult(args, provider, path) ==
    LET base == [success |-> TRUE, audioPath |-> path, provider |-> provider,
                 duration |-> StrLen(args.script) \div 15, format |-> args.format]
    IN IF provider = "huggingface"
       THEN With(base, "note",
                 "For production quality, use ElevenLabs (set ELEVENLABS_API_KEY)")
       ELSE base

\* the credential generateVoiceover reads for the validated provider
VoiceoverKey(provider) ==
    IF provider = "elevenlabs" THEN "ELEVENLABS_API_KEY" ELSE "HUGGINGFACE_API_KEY"

MissingVoiceoverKey(provider) ==
    IF provider = "elevenlabs"
    THEN Throw("Error", <<"ELEVENLABS_API_KEY", " not found",
                          ". Set it or use provider: \"huggingface\"">>)
    ELSE Throw("Error", <<"HUGGINGFACE_API_KEY", " not found">>)

\* `x ? a : b` and `x || b` on a string that may be absent: undefined and
\* the empty string are falsy
Truthy(r, k) == Has(r, k) /\ r[k] # <<>>

\* a variant that tests the presence of voiceoverPath, not its truthiness
\* (of the XML documents only the root and the optional element)
ExportDocumentIfPresent(args) ==
    LET voice == Has(args, "voiceoverPath")
    IN IF args.format = "fcpxml"
       THEN <<<<"<fcpxml version=\"1.9\">">>>>
            \o (IF voice
                THEN <<<<"<asset id=\"r2\" src=\"file://">> \o args.voiceoverPath
                       \o <<"\" start=\"0s\" duration=\"60s\" hasAudio=\"1\"/>">>>>
                ELSE <<<<>>>>)
       ELSE IF args.format = "premiere-xml"
       THEN <<<<"<xmeml version=\"5\">">>>>
            \o (IF voice
                THEN <<<<"<track><clipitem><file><pathurl>file://">> \o args.voiceoverPath
                       \o <<"</pathurl></file></clipitem></track>">>>>
                ELSE <<<<>>>>)
       ELSE <<<<"TITLE: AI Generated Video">>, <<"FCM: NON-DROP FRAME">>, <<>>,
              <<"001", "BL", "V", "C", "00:00:00:00", "00:00:10:00",
                "00:00:00:00", "00:00:10:00">>,
              <<"* FROM CLIP NAME: Voiceover">>>>

\* the document exportEditingProject generates, as its lines without their
\* indentation; a line of the edit-decision list is the sequence of its
\* blank-separated fields
ExportDocument(args) ==
    LET voice == Truthy(args, "voiceoverPath")
        title == IF Truthy(args.storyboard, "title") THEN args.storyboard.title
                 ELSE <<"Untitled">>
    IN IF args.format = "fcpxml"
       THEN <<<<"<?xml version=\"1.0\" encoding=\"UTF-8\"?>">>, <<"<!DOCTYPE fcpxml>">>,
              <<"<fcpxml version=\"1.9\">">>, <<"<resources>">>,
              <<"<format id=\"r1\" name=\"FFVideoFormat1080p30\" frameDuration=\"1001/30000s\" width=\"1920\" height=\"1080\"/>">>>>
            \o (IF voice
                THEN <<<<"<asset id=\"r2\" src=\"file://">> \o args.voiceoverPath
                       \o <<"\" start=\"0s\" duration=\"60s\" hasAudio=\"1\"/>">>>>
                ELSE <<<<>>>>)
            \o <<<<"</resources>">>, <<"<library>">>,
                 <<"<event name=\"AI Generated Video\">">>,
                 <<"<project name=\"">> \o title \o <<"\">">>,
                 <<"<sequence format=\"r1\" duration=\"60s\">">>, <<"<spine>">>>>
            \o (IF voice THEN <<<<"<audio ref=\"r2\" offset=\"0s\" duration=\"60s\"/>">>>>
                ELSE <<<<>>>>)
            \o <<<<"<!-- Add video clips here based on storyboard -->">>,
                 <<"</spine>">>, <<"</sequence>">>, <<"</project>">>, <<"</event>">>,
                 <<"</library>">>, <<"</fcpxml>">>>>
       ELSE IF args.format = "premiere-xml"
       THEN <<<<"<?xml version=\"1.0\" encoding=\"UTF-8\"?>">>, <<"<xmeml version=\"5\">">>,
              <<"<sequence>">>, <<"<name>AI Generated Video</name>">>,
              <<"<duration>1800</duration>">>, <<"<rate>">>, <<"<timebase>30</timebase>">>,
              <<"</rate>">>, <<"<media>">>, <<"<audio>">>>>
            \o (IF voice
                THEN <<<<"<track><clipitem><file><pathurl>file://">> \o args.voiceoverPath
                       \o <<"</pathurl></file></clipitem></track>">>>>
                ELSE <<<<>>>>)
            \o <<<<"</audio>">>, <<"</media>">>, <<"</sequence>">>, <<"</xmeml>">>>>
       ELSE <<<<"TITLE: AI Generated Video">>, <<"FCM: NON-DROP FRAME">>, <<>>,
              <<"001", "BL", "V", "C", "00:00:00:00", "00:00:10:00",
                "00:00:00:00", "00:00:10:00">>,
              <<"* FROM CLIP NAME: Voiceover">>>>

ExportResult(args, path) ==
    [success |-> TRUE, projectPath |-> path, format |-> args.format,
     instructions |-> <<"Import ">> \o path \o <<" into ",
         IF args.format = "fcpxml" THEN "Final Cut Pro X"
         ELSE IF args.format = "premiere-xml" THEN "Adobe Premiere Pro"
         ELSE "DaVinci Resolve">>]

WriteError == [isError |-> TRUE, name |-> "Error", message |-> <<"EACCES: permission denied">>]

ProviderError == [isError |-> TRUE, name |-> "Error", message |-> <<"fetch failed">>]

-----------------------------------------------------------------------------
(* Response envelopes (the return statements of the call handler)          *)

\* JSON.stringify(value, null, 2): the text of the document; an object
\* parsed from provider text is written out as its members
JSONStringify(value) ==
    [json |-> IF DOMAIN value = {"kind", "members"} THEN value.members ELSE value]

\* a variant that sets the flag on success envelopes as well
SuccessEnvelopeFlagged(result) ==
    [content |-> <<[type |-> "text", text |-> JSONStringify(result)]>>,
     isError |-> FALSE]

SuccessEnvelope(result) ==
    [content |-> <<[type |-> "text", text |-> JSONStringify(result)]>>]

\* a variant that reports every failure with the fixed text
CatchMessageGeneric(error) == <<"Unknown error">>

\* error instanceof Error ? error.message : 'Unknown error'
CatchMessage(error) == IF error.isError THEN error.message ELSE <<"Unknown error">>

ErrorEnvelope(error, traceId) ==
    [content |-> <<[type |-> "text",
                    text |-> JSONStringify([error |-> CatchMessage(error),
                                            traceId |-> traceId])]>>,
     isError |-> TRUE]

\* what each branch of the call handler serialises
Serialised(name, value) ==
    IF name = "generate_viral_ideas"
    THEN [ideas |-> value, count |-> Len(value)]
    ELSE value

\* the try/catch of the call handler around one outcome
EnvelopeOf(name, outcome, traceId) ==
    IF outcome.ok THEN SuccessEnvelope(Serialised(name, outcome.value))
    ELSE ErrorEnvelope(outcome.error, traceId)

\* `${Date.now()}-${Math.random().toString(36).substring(2, 11)}`
CreateTraceId(now, rnd) == <<ToString(now), "-", ToString(rnd)>>

-----------------------------------------------------------------------------
(* Invocation requests the model draws                                     *)

Tech == <<"tech">>

Title == <<"My first video">>

Script == <<"Welcome back to the channel, today we ", "build a robot.">>

SampleHistory ==
    <<[postTime |-> "2025-03-03T09:00", views |-> 100, engagement |-> 50],
      [postTime |-> "2025-03-03T09:00", views |-> 300, engagement |-> 70],
      [postTime |-> "2025-03-03T14:30", views |-> 50, engagement |-> 90]>>

\* one valid argument record per tool
BaseArgs(name) ==
    CASE name = "generate_viral_ideas" ->
            [niche |-> Tech, platform |-> "youtube", count |-> Num(10)]
      [] name = "analyze_trending_topics" ->
            [niche |-> Tech, platforms |-> <<"youtube", "reddit", "google-trends">>]
      [] name = "predict_virality" ->
            [title |-> Title, description |-> <<"About robots">>,
             platform |-> "tiktok", niche |-> Tech]
      [] name = "optimize_seo" ->
            [title |-> Title, description |-> <<"About robots">>,
             platform |-> "youtube", niche |-> Tech]
      [] name = "generate_thumbnail_concepts" -> [title |-> Title, platform |-> "instagram"]
      [] name = "optimize_posting_schedule" ->
            [platform |-> "youtube", timezone |-> "America/New_York"]
      [] name = "repurpose_content" ->
            [videoTranscript |-> Script, videoDuration |-> 600,
             targetPlatforms |-> <<"tiktok", "twitter">>]
      [] name = "run_ab_test" ->
            [element |-> "title", original |-> Title, platform |-> "youtube"]
      [] name = "generate_video_script" ->
            [idea |-> [title |-> Title, hook |-> <<"Wait for it">>,
                       platform |-> "youtube-shorts", duration |-> 45]]
      [] name = "generate_storyboard" -> [script |-> Script, platform |-> "youtube"]
      [] name = "generate_voiceover" -> [script |-> Script]
      [] name = "export_editing_project" ->
            [storyboard |-> [title |-> Title], format |-> "fcpxml"]
      [] OTHER -> [niche |-> Tech]

\* further valid records, and records that violate one constraint
Variants(name) ==
    LET b == BaseArgs(name)
    IN CASE name = "generate_viral_ideas" ->
               {With(b, "count", Num(50)), Without(b, "niche"),
                With(b, "platform", "vimeo"), With(b, "count", Num(9)),
                With(b, "count", Num(51)), With(b, "count", NumFrac(10))}
         [] name = "analyze_trending_topics" ->
               {With(b, "platforms", <<"twitter", "tiktok">>),
                With(b, "platforms", <<"reddit">>),
                With(b, "platforms", <<"facebook">>), Without(b, "platforms")}
         [] name = "predict_virality" -> {Without(b, "title"), With(b, "platform", "all")}
         [] name = "optimize_seo" ->
               {Without(b, "description"), With(b, "platform", "twitter")}
         [] name = "generate_thumbnail_concepts" ->
               {Without(b, "title"), With(b, "style", "neon")}
         [] name = "optimize_posting_schedule" ->
               {With(b, "historicalPerformance", SampleHistory),
                With(b, "historicalPerformance", <<>>),
                Without(b, "timezone"), With(b, "platform", "facebook")}
         [] name = "repurpose_content" ->
               {Without(b, "videoDuration"), With(b, "targetPlatforms", <<"youtube">>)}
         [] name = "run_ab_test" ->
               {With(b, "variants", Num(5)), With(b, "variants", Num(6)),
                With(b, "variants", Num(1)), With(b, "variants", Num(2)),
                With(b, "variants", NumFrac(3)), With(b, "element", "banner"),
                Without(b, "original")}
         [] name = "generate_video_script" ->
               {Without(b, "idea"), With(b, "tone", "angry"),
                With(b, "idea", With(b.idea, "platform", "all"))}
         [] name = "generate_storyboard" ->
               {Without(b, "script"), With(b, "visualStyle", "3d")}
         [] name = "generate_voiceover" ->
               {With(With(b, "provider", "elevenlabs"), "format", "wav"),
                Without(b, "script"), With(b, "provider", "polly"),
                With(b, "format", "ogg")}
         [] name = "export_editing_project" ->
               {With(b, "voiceoverPath", <<"/tmp/voiceover-x.mp3">>),
                With(b, "format", "premiere-xml"), With(b, "format", "davinci-xml"),
                With(b, "format", "avid"), Without(b, "storyboard")}
         [] OTHER -> {EmptyMembers}

RawArgs(name) == {BaseArgs(name)} \cup Variants(name)

ToolNames ==
    Range(IDEA_GENERATOR_TOOLS) \cup Range(GROWTH_OPTIMIZER_TOOLS)
    \cup Range(SCRIPT_TO_VIDEO_TOOLS) \cup {"bogus_tool"}

ProviderTexts ==
    {<<"p">>,
     <<"p", "]", "}">>,
     <<"p", "}", "{", "]", "[", "p">>,
     <<"p", "{", "}", "p">>,
     <<"{", "overallScore", "seoScore", "}">>,
     <<"p", "{", "error", "traceId", "}">>,
     <<"p", "{", "clips", "variants", "scenes", "shots", "}">>,
     <<"{", "p", "}">>,
     <<"p", "[", "i1", "i3", "i2", "]">>,
     <<"[", "i1", "]", "p", "[", "i2", "]">>}

GeminiAnswers == {[ok |-> FALSE, text |-> <<>>]} \cup {[ok |-> TRUE, text |-> t] : t \in ProviderTexts}

CallRedditAnswers ==
    {[ok |-> FALSE, posts |-> <<>>],
     [ok |-> TRUE, posts |-> <<[hasData |-> TRUE, title |-> <<"Tech", " tutorial">>]>>]}

TTSAnswers == {[ok |-> TRUE], [ok |-> FALSE]}

-----------------------------------------------------------------------------
(* The CallToolRequest handler.  One handler run is a call record; it      *)
(* suspends at each await on an external capability (pc names the request  *)
(* that is outstanding) and ends with one returned envelope.               *)

IdleCall == [pc |-> "idle"]

\* the names the if-chain of each call handler compares request.params.name to
Branches(adapter) ==
    CASE adapter = "idea" ->
            {"generate_viral_ideas", "analyze_trending_topics", "predict_virality"}
      [] adapter = "growth" ->
            {"optimize_seo", "generate_thumbnail_concepts", "optimize_posting_schedule",
             "repurpose_content", "run_ab_test"}
      [] adapter = "script" ->
            {"generate_video_script", "generate_storyboard", "generate_voiceover",
             "export_editing_project"}

UnknownTool(name) ==
    [isError |-> TRUE, name |-> "Error", message |-> <<"Unknown tool: ", name>>]

\* ZodError: its message is the serialised issue list
ZodError(issues) ==
    LET F[n \in 0..Len(issues)] ==
            IF n = 0 THEN <<"ZodError">>
            ELSE F[n - 1] \o <<issues[n].code, issues[n].path[1]>>
    IN [isError |-> TRUE, name |-> "ZodError", message |-> F[Len(issues)]]

NewCall(adapter, name, raw, traceId) ==
    [pc |-> "running", adapter |-> adapter, name |-> name, raw |-> raw,
     traceId |-> traceId, trends |-> <<>>, ext |-> <<>>, validators |-> <<>>,
     handlers |-> <<>>, wrote |-> <<>>, envelopes |-> <<>>,
     answer |-> None, outcome |-> None, failed |-> <<>>, responses |-> <<>>]

\* a return statement of the call handler (from the try or the catch block)
Return(call, outcome) ==
    [call EXCEPT !.pc = "done",
                 !.outcome = outcome,
                 !.envelopes = Append(@, EnvelopeOf(call.name, outcome, call.traceId))]

\* an await on an external capability
Await(call, capability) ==
    [call EXCEPT !.pc = capability, !.ext = Append(@, capability)]

\* the outstanding request has answered or has been rejected
Settled(call, answer) ==
    [call EXCEPT !.responses = Append(@, answer),
                 !.failed = IF answer.ok THEN @ ELSE Append(@, call.pc)]

ArgsOf(call) == SchemaParse(call.name, call.raw)

\* the platforms scrapeTrendingTopics is called with
PlatformsOf(call) ==
    IF call.name = "generate_viral_ideas" THEN <<"youtube", "reddit", "google-trends">>
    ELSE ArgsOf(call).platforms

\* scrapeTrendingTopics has returned to its caller
Scraped(call, trends) ==
    IF call.name = "analyze_trending_topics"
    THEN Return(call, Ok(AnalyzeTrendsResult(ArgsOf(call), trends)))
    ELSE Await([call EXCEPT !.trends = trends], "gemini")

\* scrapeTrendingTopics from one of its synchronous stretches on
ScrapeStep(call, s) ==
    IF s.pc = "scraped" THEN Scraped(call, s.trends)
    ELSE Await([call EXCEPT !.trends = s.trends], s.pc)

\* fs.writeFileSync(path, content), then the handler's return statement
WriteAndReturn(call, path, fsOk, result) ==
    IF fsOk
    THEN Return([call EXCEPT !.ext = Append(@, "fs"), !.wrote = Append(@, path)], Ok(result))
    ELSE Return([call EXCEPT !.ext = Append(@, "fs")],
                [ok |-> FALSE, error |-> WriteError])

\* a variant in which generateViralIdeas fetches the trends before it looks
\* for its credential
StartHandlerScrapeFirst(call, environment, fsOk) ==
    LET args == ArgsOf(call)
        name == call.name
    IN IF name = "generate_viral_ideas"
       THEN ScrapeStep(call, ScrapeStart(args.niche, PlatformsOf(call)))
       ELSE IF name \in GeminiTools
       THEN IF "GEMINI_API_KEY" \notin environment
            THEN Return(call, MissingGeminiKey(name))
            ELSE Await(call, "gemini")
       ELSE IF name = "analyze_trending_topics"
       THEN ScrapeStep(call, ScrapeStart(args.niche, args.platforms))
       ELSE IF name = "optimize_posting_schedule"
       THEN Return(call, Ok(OptimizePostingSchedule(args)))
       ELSE IF name = "generate_voiceover"
       THEN IF VoiceoverKey(args.provider) \notin environment
            THEN Return(call, MissingVoiceoverKey(args.provider))
            ELSE Await(call, args.provider)
       ELSE WriteAndReturn(call, ProjectPath(call.traceId, args.format), fsOk,
                           ExportResult(args, ProjectPath(call.traceId, args.format)))

\* a variant of generateVoiceover that turns to HuggingFace when the
\* ElevenLabs key is not set
StartHandlerFallback(call, environment, fsOk) ==
    LET args == ArgsOf(call)
        name == call.name
    IN IF name \in GeminiTools
       THEN IF "GEMINI_API_KEY" \notin environment
            THEN Return(call, MissingGeminiKey(name))
            ELSE IF name = "generate_viral_ideas"
            THEN ScrapeStep(call, ScrapeStart(args.niche, PlatformsOf(call)))
            ELSE Await(call, "gemini")
       ELSE IF name = "analyze_trending_topics"
       THEN ScrapeStep(call, ScrapeStart(args.niche, args.platforms))
       ELSE IF name = "optimize_posting_schedule"
       THEN Return(call, Ok(OptimizePostingSchedule(args)))
       ELSE IF name = "generate_voiceover"
       THEN IF VoiceoverKey(args.provider) \in environment
            THEN Await(call, args.provider)
            ELSE IF "HUGGINGFACE_API_KEY" \in environment
            THEN Await(call, "huggingface")
            ELSE Return(call, MissingVoiceoverKey(args.provider))
       ELSE WriteAndReturn(call, ProjectPath(call.traceId, args.format), fsOk,
                           ExportResult(args, ProjectPath(call.traceId, args.format)))

\* the handler from its entry up to its first await or its return
StartHandler(call, environment, fsOk) ==
    LET args == ArgsOf(call)
        name == call.name
    IN IF name \in GeminiTools
       THEN IF "GEMINI_API_KEY" \notin environment
            THEN Return(call, MissingGeminiKey(name))
            ELSE IF name = "generate_viral_ideas"
            THEN ScrapeStep(call, ScrapeStart(args.niche, PlatformsOf(call)))
            ELSE Await(call, "gemini")
       ELSE IF name = "analyze_trending_topics"
       THEN ScrapeStep(call, ScrapeStart(args.niche, args.platforms))
       ELSE IF name = "optimize_posting_schedule"
       THEN Return(call, Ok(OptimizePostingSchedule(args)))
       ELSE IF name = "generate_voiceover"
       THEN IF VoiceoverKey(args.provider) \notin environment
            THEN Return(call, MissingVoiceoverKey(args.provider))
            ELSE Await(call, args.provider)
       ELSE WriteAndReturn(call, ProjectPath(call.traceId, args.format), fsOk,
                           ExportResult(args, ProjectPath(call.traceId, args.format)))

\* a variant that starts the provider request before Schema.parse has run
HandleCallHandlerFirst(adapter, name, raw, traceId, environment, fsOk) ==
    LET call == NewCall(adapter, name, raw, traceId)
    IN IF name \notin Branches(adapter)
       THEN Return(call, [ok |-> FALSE, error |-> UnknownTool(name)])
       ELSE LET parsed == [call EXCEPT !.validators = Append(@, name)]
                issues == SchemaIssues(name, raw)
            IN IF issues # <<>>
               THEN Return(Await([parsed EXCEPT !.handlers = Append(@, name)], "gemini"),
                           [ok |-> FALSE, error |-> ZodError(issues)])
               ELSE StartHandler([parsed EXCEPT !.handlers = Append(@, name)],
                                 environment, fsOk)

\* a variant that validates the arguments before it looks at the name
HandleCallParseFirst(adapter, name, raw, traceId, environment, fsOk) ==
    LET call == NewCall(adapter, name, raw, traceId)
    IN IF name \notin Branches(adapter)
       THEN Return([call EXCEPT !.validators = Append(@, name)],
                   [ok |-> FALSE, error |-> ZodError(<<Issue("invalid_type", "name")>>)])
       ELSE LET parsed == [call EXCEPT !.validators = Append(@, name)]
                issues == SchemaIssues(name, raw)
            IN IF issues # <<>>
               THEN Return(parsed, [ok |-> FALSE, error |-> ZodError(issues)])
               ELSE StartHandler([parsed EXCEPT !.handlers = Append(@, name)],
                                 environment, fsOk)

\* a variant that calls the handler again when it threw before its first
\* await
HandleCallRetry(adapter, name, raw, traceId, environment, fsOk) ==
    LET call == NewCall(adapter, name, raw, traceId)
    IN IF name \notin Branches(adapter)
       THEN Return(call, [ok |-> FALSE, error |-> UnknownTool(name)])
       ELSE LET parsed == [call EXCEPT !.validators = Append(@, name)]
                issues == SchemaIssues(name, raw)
                first == StartHandler([parsed EXCEPT !.handlers = Append(@, name)],
                                      environment, fsOk)
            IN IF issues # <<>>
               THEN Return(parsed, [ok |-> FALSE, error |-> ZodError(issues)])
               ELSE IF first.pc = "done" /\ ~first.outcome.ok
               THEN StartHandler([parsed EXCEPT !.handlers = <<name, name>>],
                                 environment, fsOk)
               ELSE first

\* the try block of the call handler: the if-chain, Schema.parse, the handler
\* a variant whose call handler looks for the provider's credential before
\* it validates the arguments
HandleCallCredentialFirst(adapter, name, raw, traceId, environment, fsOk) ==
    LET call == NewCall(adapter, name, raw, traceId)
    IN IF name \notin Branches(adapter)
       THEN Return(call, [ok |-> FALSE, error |-> UnknownTool(name)])
       ELSE IF name \in GeminiTools /\ "GEMINI_API_KEY" \notin environment
       THEN Return(call, MissingGeminiKey(name))
       ELSE LET parsed == [call EXCEPT !.validators = Append(@, name)]
                issues == SchemaIssues(name, raw)
            IN IF issues # <<>>
               THEN Return(parsed, [ok |-> FALSE, error |-> ZodError(issues)])
               ELSE StartHandler([parsed EXCEPT !.handlers = Append(@, name)],
                                 environment, fsOk)

\* the handlers given the credentials captured when the process started
\* (none) in place of process.env at the time of the call
HandleCallStartupEnv(adapter, name, raw, traceId, environment, fsOk) ==
    LET call == NewCall(adapter, name, raw, traceId)
    IN IF name \notin Branches(adapter)
       THEN Return(call, [ok |-> FALSE, error |-> UnknownTool(name)])
       ELSE LET parsed == [call EXCEPT !.validators = Append(@, name)]
                issues == SchemaIssues(name, raw)
            IN IF issues # <<>>
               THEN Return(parsed, [ok |-> FALSE, error |-> ZodError(issues)])
               ELSE StartHandler([parsed EXCEPT !.handlers = Append(@, name)], {}, fsOk)

HandleCall(adapter, name, raw, traceId, environment, fsOk) ==
    LET call == NewCall(adapter, name, raw, traceId)
    IN IF name \notin Branches(adapter)
       THEN Return(call, [ok |-> FALSE, error |-> UnknownTool(name)])
       ELSE LET parsed == [call EXCEPT !.validators = Append(@, name)]
                issues == SchemaIssues(name, raw)
            IN IF issues # <<>>
               THEN Return(parsed, [ok |-> FALSE, error |-> ZodError(issues)])
               ELSE StartHandler([parsed EXCEPT !.handlers = Append(@, name)],
                                 environment, fsOk)

\* the content of each file a call has written
ContentOf(call) ==
    IF call.name = "export_editing_project" THEN ExportDocument(ArgsOf(call))
    ELSE <<<<"audio">>>>

\* /tmp after the call's writeFileSync, which replaces a file of the same
\* path; writes counts the writes each path has received
WriteFiles(fs, call) ==
    IF call.pc = "done" /\ call.wrote # <<>>
    THEN LET old == {f \in fs : f.path = call.wrote[1]}
             n == IF old = {} THEN 0 ELSE (CHOOSE f \in old : TRUE).writes
         IN (fs \ old) \cup {[path |-> call.wrote[1], content |-> ContentOf(call),
                               writes |-> n + 1]}
    ELSE fs

regVars == <<registry, listed>>

funVars == <<fin, fout, ideasText, ideasOut, trIn, trOut, exIn, exOut>>

\* an invocation request arrives: createTraceId(), then the try block up to
\* the first await
ReceiveRequest(c, requests) ==
    /\ calls[c].pc = "idle"
    /\ served < MaxCalls * Cardinality(DOMAIN calls)
    /\ \E request \in requests, rnd \in 1..MaxRand, fsOk \in BOOLEAN :
         \E raw \in RawArgs(request[2]) :
            LET call == HandleCall(request[1], request[2], raw,
                                   CreateTraceId(clock, rnd), env, fsOk)
            IN /\ calls' = [calls EXCEPT ![c] = call]
               /\ files' = WriteFiles(files, call)
    /\ served' = served + 1
    /\ UNCHANGED <<env, clock, funVars, regVars>>

\* a request to any of the three servers for one of the names
ReceiveFrom(c, names) == ReceiveRequest(c, Adapters \X names)

Receive(c) == ReceiveFrom(c, ToolNames)

\* the youtube fetch of the scraper answers
YouTubeResponds(c) ==
    /\ calls[c].pc = "youtube"
    /\ \E answer \in YouTubeAnswers :
         LET call == Settled(calls[c], answer)
             niche == ArgsOf(call).niche
             y == ScrapeOnYouTube(call.trends, niche, answer)
         IN calls' = [calls EXCEPT ![c] =
                IF y.ok
                THEN ScrapeStep(call, ScrapeAfterYouTube(y.value, niche, PlatformsOf(call)))
                ELSE Return(call, y)]
    /\ UNCHANGED <<env, clock, files, served, funVars, regVars>>

\* the reddit fetch of the scraper answers
RedditResponds(c) ==
    /\ calls[c].pc = "reddit"
    /\ \E answer \in CallRedditAnswers :
         LET call == Settled(calls[c], answer)
             r == ScrapeOnReddit(call.trends, answer)
         IN calls' = [calls EXCEPT ![c] =
                IF r.ok
                THEN Scraped(call, ScrapeAfterReddit(r.value, ArgsOf(call).niche,
                                                     PlatformsOf(call)))
                ELSE Return(call, r)]
    /\ UNCHANGED <<env, clock, files, served, funVars, regVars>>

\* a variant whose handlers keep the name of the tool in a variable of the
\* module, which the latest request in flight has set
GeminiRespondsShared(c) ==
    /\ calls[c].pc = "gemini"
    /\ \E answer \in GeminiAnswers :
         LET call == [Settled(calls[c], answer) EXCEPT !.answer = answer]
             others == {d \in DOMAIN calls \ {c} : calls[d].pc = "gemini"}
             current == IF others = {} THEN call.name
                        ELSE calls[CHOOSE d \in others : TRUE].name
         IN calls' = [calls EXCEPT ![c] =
                IF answer.ok THEN Return(call, AfterGemini(current, answer.text))
                ELSE Return(call, [ok |-> FALSE, error |-> ProviderError])]
    /\ UNCHANGED <<env, clock, files, served, funVars, regVars>>

\* a variant whose handlers swallow a rejection of model.generateContent and
\* wait on a promise that nothing settles
GeminiRespondsHanging(c) ==
    /\ calls[c].pc = "gemini"
    /\ \E answer \in GeminiAnswers :
         LET call == [Settled(calls[c], answer) EXCEPT !.answer = answer]
         IN calls' = [calls EXCEPT ![c] =
                IF answer.ok THEN Return(call, AfterGemini(call.name, answer.text))
                ELSE [call EXCEPT !.pc = "hung"]]
    /\ UNCHANGED <<env, clock, files, served, funVars, regVars>>

\* model.generateContent answers (or rejects)
GeminiResponds(c) ==
    /\ calls[c].pc = "gemini"
    /\ \E answer \in GeminiAnswers :
         LET call == [Settled(calls[c], answer) EXCEPT !.answer = answer]
         IN calls' = [calls EXCEPT ![c] =
                IF answer.ok THEN Return(call, AfterGemini(call.name, answer.text))
                ELSE Return(call, [ok |-> FALSE, error |-> ProviderError])]
    /\ UNCHANGED <<env, clock, files, served, funVars, regVars>>

\* a variant that creates the output file before it looks at the answer of
\* the text-to-speech request
TTSRespondsWriteFirst(c) ==
    /\ calls[c].pc \in {"elevenlabs", "huggingface"}
    /\ \E answer \in TTSAnswers, fsOk \in BOOLEAN :
         LET call == Settled(calls[c], answer)
             args == ArgsOf(call)
             path == VoiceoverPath(call.traceId, args.format)
             written == [call EXCEPT !.ext = Append(@, "fs"), !.wrote = Append(@, path)]
             next == IF answer.ok
                     THEN Return(written, Ok(VoiceoverResult(args, call.pc, path)))
                     ELSE Return(written, [ok |-> FALSE, error |-> NetworkError])
         IN /\ calls' = [calls EXCEPT ![c] = next]
            /\ files' = WriteFiles(files, next)
    /\ UNCHANGED <<env, clock, served, funVars, regVars>>

\* the text-to-speech request answers (or rejects)
TTSResponds(c) ==
    /\ calls[c].pc \in {"elevenlabs", "huggingface"}
    /\ \E answer \in TTSAnswers, fsOk \in BOOLEAN :
         LET call == Settled(calls[c], answer)
             args == ArgsOf(call)
             path == VoiceoverPath(call.traceId, args.format)
             next == IF answer.ok
                     THEN WriteAndReturn(call, path, fsOk,
                                         VoiceoverResult(args, call.pc, path))
                     ELSE Return(call, [ok |-> FALSE, error |-> NetworkError])
         IN /\ calls' = [calls EXCEPT ![c] = next]
            /\ files' = WriteFiles(files, next)
    /\ UNCHANGED <<env, clock, served, funVars, regVars>>

\* the envelope has been delivered; the call's context is discarded
Forget(c) ==
    /\ calls[c].pc = "done"
    /\ calls' = [calls EXCEPT ![c] = IdleCall]
    /\ UNCHANGED <<env, clock, files, served, funVars, regVars>>

\* time passes
Tick ==
    /\ clock < MaxClock
    /\ clock' = clock + 1
    /\ UNCHANGED <<calls, env, files, served, funVars, regVars>>

\* the environment of the process changes
SetEnv ==
    /\ \E k \in Credentials : env' = IF k \in env THEN env \ {k} ELSE env \cup {k}
    /\ UNCHANGED <<calls, clock, files, served, funVars, regVars>>

Init ==
    /\ calls = [c \in {1} |-> IdleCall]
    /\ env \in SUBSET Credentials
    /\ clock = 0
    /\ files = {}
    /\ served = 0
    /\ fin = NotRun /\ fout = NotRun
    /\ ideasText = <<>> /\ ideasOut = NotRun
    /\ trIn = NotRun /\ trOut = NotRun
    /\ exIn = NotRun /\ exOut = NotRun
    /\ registry = ToolArrays
    /\ listed = {}

Next ==
    \/ \E c \in DOMAIN calls : Receive(c)
    \/ \E c \in DOMAIN calls : YouTubeResponds(c)
    \/ \E c \in DOMAIN calls : RedditResponds(c)
    \/ \E c \in DOMAIN calls : GeminiResponds(c)
    \/ \E c \in DOMAIN calls : TTSResponds(c)
    \/ \E c \in DOMAIN calls : Forget(c)
    \/ Tick
    \/ SetEnv

Spec == Init /\ [][Next]_vars

-----------------------------------------------------------------------------
(* Overlapping calls: two handler runs of the script-to-video server are   *)
(* in flight at once and their awaits resolve in any order; they arrive    *)
(* within one millisecond or in different ones.                            *)

InitConcurrent ==
    /\ calls = [c \in {1, 2} |-> IdleCall]
    /\ env = Credentials
    /\ clock = 0
    /\ files = {}
    /\ served = 0
    /\ fin = NotRun /\ fout = NotRun
    /\ ideasText = <<>> /\ ideasOut = NotRun
    /\ trIn = NotRun /\ trOut = NotRun
    /\ exIn = NotRun /\ exOut = NotRun
    /\ registry = ToolArrays
    /\ listed = {}

NextConcurrent ==
    \/ \E c \in DOMAIN calls : ReceiveFrom(c, Range(SCRIPT_TO_VIDEO_TOOLS))
    \/ \E c \in DOMAIN calls : GeminiResponds(c)
    \/ \E c \in DOMAIN calls : TTSResponds(c)
    \/ Tick

SpecConcurrent == InitConcurrent /\ [][NextConcurrent]_vars

-----------------------------------------------------------------------------
(* Discovery: the ListToolsRequest handler of each adapter returns the     *)
(* adapter's TOOLS array.  Each response is kept with whether an           *)
(* invocation request was received before it.                              *)

ListToolsReversing(adapter) ==
    /\ registry' = [registry EXCEPT ![adapter] =
                        [i \in DOMAIN @ |-> @[Len(@) + 1 - i]]]
    /\ listed' = listed \cup {[adapter |-> adapter, afterCall |-> served > 0,
                                tools |-> Descriptors(registry'[adapter])]}
    /\ UNCHANGED <<calls, env, clock, files, served, funVars>>

ListTools(adapter) ==
    /\ listed' = listed \cup {[adapter |-> adapter, afterCall |-> served > 0,
                                tools |-> Descriptors(registry[adapter])]}
    /\ UNCHANGED <<calls, env, clock, files, served, registry, funVars>>

\* the calls drawn between discovery requests: one tool per adapter and an
\* unregistered name
DiscoveryCalls ==
    {"predict_virality", "optimize_posting_schedule", "export_editing_project", "bogus_tool"}

InitDiscovery == Init /\ env = Credentials

NextDiscovery ==
    \/ \E c \in DOMAIN calls : ReceiveFrom(c, DiscoveryCalls)
    \/ \E c \in DOMAIN calls : GeminiResponds(c)
    \/ \E c \in DOMAIN calls : Forget(c)
    \/ \E adapter \in Adapters : ListTools(adapter)

SpecDiscovery == InitDiscovery /\ [][NextDiscovery]_vars

-----------------------------------------------------------------------------
(* One call whose external requests all settle: every request a handler    *)
(* awaits is eventually answered or rejected.  Nothing else is assumed:    *)
(* the request itself may never arrive and time passes freely.             *)

NextLive ==
    \/ \E c \in DOMAIN calls : Receive(c)
    \/ \E c \in DOMAIN calls : YouTubeResponds(c)
    \/ \E c \in DOMAIN calls : RedditResponds(c)
    \/ \E c \in DOMAIN calls : GeminiResponds(c)
    \/ \E c \in DOMAIN calls : TTSResponds(c)
    \/ Tick

\* the outstanding request of a call settles
Responds(c) ==
    YouTubeResponds(c) \/ RedditResponds(c) \/ GeminiResponds(c) \/ TTSResponds(c)

AnswersArrive == WF_vars(\E c \in DOMAIN calls : Responds(c))

\* the process holds every credential or none
InitLive == Init /\ env \in {{}, Credentials}

SpecLive == InitLive /\ [][NextLive]_vars /\ AnswersArrive

-----------------------------------------------------------------------------
(* One generate_voiceover call under each environment; the environment is  *)
(* fixed while the call runs.                                              *)

NextVoiceover ==
    \/ \E c \in DOMAIN calls : ReceiveRequest(c, {<<"script", "generate_voiceover">>})
    \/ \E c \in DOMAIN calls : TTSResponds(c)
    \/ Tick

SpecVoiceover == Init /\ [][NextVoiceover]_vars

-----------------------------------------------------------------------------
(* Credentials over the life of a process: it starts with no credential    *)
(* set, the environment changes at any time, requests are handled one      *)
(* after the other and discovery requests arrive in between.               *)

CredentialCalls ==
    {<<"idea", "predict_virality">>, <<"idea", "analyze_trending_topics">>,
     <<"growth", "optimize_posting_schedule">>, <<"script", "export_editing_project">>}

InitCredentials ==
    /\ calls = [c \in {1, 2} |-> IdleCall]
    /\ env = {}
    /\ clock = 0
    /\ files = {}
    /\ served = 0
    /\ fin = NotRun /\ fout = NotRun
    /\ ideasText = <<>> /\ ideasOut = NotRun
    /\ trIn = NotRun /\ trOut = NotRun
    /\ exIn = NotRun /\ exOut = NotRun
    /\ registry = ToolArrays
    /\ listed = {}

\* a request that arrives after the earlier ones have returned
ReceiveInTurn(c) ==
    /\ \A d \in DOMAIN calls : d < c => calls[d].pc = "done"
    /\ ReceiveRequest(c, CredentialCalls)

\* a discovery request to a process just started, no credential set
DiscoverAtStart(adapter) == served = 0 /\ env = {} /\ ListTools(adapter)

NextCredentials ==
    \/ \E c \in DOMAIN calls : ReceiveInTurn(c)
    \/ \E c \in DOMAIN calls : YouTubeResponds(c)
    \/ \E c \in DOMAIN calls : RedditResponds(c)
    \/ \E c \in DOMAIN calls : GeminiResponds(c)
    \/ \E adapter \in Adapters : DiscoverAtStart(adapter)
    \/ SetEnv

SpecCredentials == InitCredentials /\ [][NextCredentials]_vars

-----------------------------------------------------------------------------
(* Function-level developments: each draws the inputs of one function and  *)
(* applies it once.                                                        *)

callVars == <<calls, env, clock, files, served, registry, listed>>

NoCalls ==
    /\ calls = <<>>
    /\ env = {}
    /\ clock = 0
    /\ files = {}
    /\ served = 0
    /\ registry = ToolArrays
    /\ listed = {}

\* optimizePostingSchedule on validated arguments
InitSchedule ==
    /\ NoCalls
    /\ exIn = NotRun /\ exOut = NotRun
    /\ fin \in ScheduleArgs(MaxSamples) /\ fout = NotRun
    /\ ideasText = <<>> /\ ideasOut = NotRun
    /\ trIn = NotRun /\ trOut = NotRun

ScheduleRun ==
    /\ fout = NotRun
    /\ fout' = [run |-> TRUE, result |-> OptimizePostingSchedule(fin)]
    /\ UNCHANGED <<callVars, exIn, exOut, fin, ideasText, ideasOut, trIn, trOut>>

NextSchedule == ScheduleRun

SpecSchedule == InitSchedule /\ [][NextSchedule]_vars

FixedTraceId == CreateTraceId(0, 1)

\* the code of a generative handler from the provider's text to the envelope,
\* for the four handlers whose result is an object with a collection
MaxMembers == 2

CollectionTools ==
    {"repurpose_content", "run_ab_test", "generate_video_script", "generate_storyboard"}

ObjectTexts(n) ==
    {<<"p">>} \cup {<<"p", "{">> \o members \o <<"}", "p">> : members \in SeqsUpTo(KeyTok, n)}

InitFinish ==
    /\ NoCalls
    /\ exIn = NotRun /\ exOut = NotRun
    /\ fin \in {[name |-> name, text |-> text] :
                    name \in CollectionTools, text \in ObjectTexts(MaxMembers)}
    /\ fout = NotRun
    /\ ideasText = <<>> /\ ideasOut = NotRun
    /\ trIn = NotRun /\ trOut = NotRun

FinishRun ==
    /\ fout = NotRun
    /\ fout' = [run |-> TRUE,
                envelope |-> EnvelopeOf(fin.name, AfterGemini(fin.name, fin.text),
                                        FixedTraceId)]
    /\ UNCHANGED <<callVars, exIn, exOut, fin, ideasText, ideasOut, trIn, trOut>>

NextFinish == FinishRun

SpecFinish == InitFinish /\ [][NextFinish]_vars

\* generateViralIdeas from the provider's answer to the returned envelope
InitIdeas ==
    /\ NoCalls
    /\ exIn = NotRun /\ exOut = NotRun
    /\ fin = NotRun /\ fout = NotRun
    /\ ideasText \in IdeaTexts(MaxIdeas) /\ ideasOut = NotRun
    /\ trIn = NotRun /\ trOut = NotRun

IdeasRun ==
    /\ ideasOut = NotRun
    /\ ideasOut' = [run |-> TRUE,
                    envelope |-> EnvelopeOf("generate_viral_ideas",
                                            GenerateViralIdeasFinish(ideasText),
                                            FixedTraceId)]
    /\ UNCHANGED <<callVars, exIn, exOut, fin, fout, ideasText, trIn, trOut>>

NextIdeas == IdeasRun

SpecIdeas == InitIdeas /\ [][NextIdeas]_vars

\* scrapeTrendingTopics on a niche, a platform array and the sources' answers
InitTrends ==
    /\ NoCalls
    /\ exIn = NotRun /\ exOut = NotRun
    /\ fin = NotRun /\ fout = NotRun
    /\ ideasText = <<>> /\ ideasOut = NotRun
    /\ trIn \in TrendInputs(MaxPosts) /\ trOut = NotRun

TrendsRun ==
    /\ trOut = NotRun
    /\ trOut' = [run |-> TRUE,
                 outcome |-> ScrapeTrendingTopics(trIn.niche, trIn.platforms,
                                                  trIn.youtube, trIn.reddit)]
    /\ UNCHANGED <<callVars, exIn, exOut, fin, fout, ideasText, ideasOut, trIn>>

NextTrends == TrendsRun

SpecTrends == InitTrends /\ [][NextTrends]_vars

\* the export branch of the script-to-video call handler on the arguments of
\* a request: ExportProjectArgsSchema.parse, exportEditingProject, envelope
Optional(r, k, option) == IF option = <<>> THEN r ELSE With(r, k, option[1])

ExportRequests ==
    {Optional(Optional(Optional(Optional(EmptyMembers, "format", f), "storyboard", sb),
                       "voiceoverPath", v), "bRollSuggestions", b) :
        f \in {<<>>, <<"fcpxml">>, <<"premiere-xml">>, <<"davinci-xml">>},
        sb \in {<<>>, <<EmptyMembers>>, <<[title |-> <<>>]>>, <<[title |-> Title]>>},
        v \in {<<>>, <<<<>>>>, <<<<"/tmp/voiceover-x.mp3">>>>},
        b \in {<<>>, <<<<"city timelapse">>>>}}

InitExport ==
    /\ NoCalls
    /\ fin = NotRun /\ fout = NotRun
    /\ ideasText = <<>> /\ ideasOut = NotRun
    /\ trIn = NotRun /\ trOut = NotRun
    /\ exIn \in ExportRequests /\ exOut = NotRun

ExportRun ==
    /\ exOut = NotRun
    /\ LET call == HandleCall("script", "export_editing_project", exIn,
                              FixedTraceId, {}, TRUE)
       IN exOut' = [run |-> TRUE, envelope |-> call.envelopes[1],
                    files |-> WriteFiles({}, call)]
    /\ UNCHANGED <<callVars, fin, fout, ideasText, ideasOut, trIn, trOut, exIn>>

NextExport == ExportRun

SpecExport == InitExport /\ [][NextExport]_vars

-----------------------------------------------------------------------------
(* Properties of the call handlers (Spec)                                  *)

Started == {c \in DOMAIN calls : calls[c].pc # "idle"}

Done == {c \in DOMAIN calls : calls[c].pc = "done"}

IsErrorEnvelope(e) == Has(e, "isError") /\ e.isError = TRUE

Document(e) == e.content[1].text.json

InRegistry(call) == call.name \in Range(Registry(call.adapter))

Dispatched(call) == InRegistry(call) /\ SchemaIssues(call.name, call.raw) = <<>>

\* C1: a call to a tool of the adapter whose arguments violate a constraint
\* of the tool's validator has returned an error envelope, and no external
\* capability (provider, text-to-speech, trend source, file write) was
\* invoked and no handler was entered during the call.
InvalidArgsRejected ==
    \A c \in Started :
        LET call == calls[c]
        IN (InRegistry(call) /\ SchemaIssues(call.name, call.raw) # <<>>) =>
              /\ call.pc = "done"
              /\ Len(call.envelopes) = 1
              /\ IsErrorEnvelope(call.envelopes[1])
              /\ call.ext = <<>>
              /\ call.wrote = <<>>
              /\ call.handlers = <<>>

InvalidArgsWitness ==
    \E c \in Done :
        LET call == calls[c]
            issues == SchemaIssues(call.name, call.raw)
        IN /\ call.name = "generate_viral_ideas"
           /\ call.adapter = "idea"
           /\ \E i \in DOMAIN issues : issues[i].code = "too_big"
           /\ IsErrorEnvelope(call.envelopes[1])
           /\ call.ext = <<>>

CredentialTools ==
    {"generate_viral_ideas", "predict_virality", "optimize_seo",
     "generate_thumbnail_concepts", "repurpose_content", "run_ab_test",
     "generate_video_script", "generate_storyboard", "generate_voiceover"}

RequiredCredential(call) ==
    IF call.name # "generate_voiceover" THEN "GEMINI_API_KEY"
    ELSE IF ArgsOf(call).provider = "elevenlabs" THEN "ELEVENLABS_API_KEY"
    ELSE "HUGGINGFACE_API_KEY"

\* C2: when a request is received whose handler needs a credential that is
\* absent from the environment at that moment, the call returns at once with
\* an error envelope whose message names the credential, and no external
\* capability is invoked: generate_viral_ideas has not fetched trends.
MissingCredentialRejected ==
    [][\A c \in DOMAIN calls :
          (/\ calls[c].pc = "idle"
           /\ calls'[c].pc # "idle"
           /\ Dispatched(calls'[c])
           /\ calls'[c].name \in CredentialTools
           /\ RequiredCredential(calls'[c]) \notin env)
          => /\ calls'[c].pc = "done"
             /\ Len(calls'[c].envelopes) = 1
             /\ IsErrorEnvelope(calls'[c].envelopes[1])
             /\ RequiredCredential(calls'[c])
                   \in Range(Document(calls'[c].envelopes[1]).error)
             /\ calls'[c].ext = <<>>
             /\ calls'[c].wrote = <<>>]_vars

MissingCredentialWitness ==
    \E c \in Done :
        LET call == calls[c]
        IN /\ call.name = "generate_viral_ideas"
           /\ Dispatched(call)
           /\ "GEMINI_API_KEY" \notin env
           /\ IsErrorEnvelope(call.envelopes[1])
           /\ "GEMINI_API_KEY" \in Range(Document(call.envelopes[1]).error)
           /\ call.ext = <<>>

\* C3: a call whose name is not in the adapter's registry has returned an
\* error envelope with the message 'Unknown tool: <name>', whatever its
\* arguments; no validator and no handler has run for it.
UnknownToolRejected ==
    \A c \in Started :
        LET call == calls[c]
        IN ~InRegistry(call) =>
              /\ call.pc = "done"
              /\ Len(call.envelopes) = 1
              /\ IsErrorEnvelope(call.envelopes[1])
              /\ Document(call.envelopes[1]).error = <<"Unknown tool: ", call.name>>
              /\ call.validators = <<>>
              /\ call.handlers = <<>>
              /\ call.ext = <<>>

UnknownToolWitness ==
    \E c \in Done :
        LET call == calls[c]
        IN /\ call.adapter = "idea"
           /\ call.name = "generate_voiceover"
           /\ SchemaIssues(call.name, call.raw) # <<>>
           /\ Document(call.envelopes[1]).error = <<"Unknown tool: ", "generate_voiceover">>

EnvelopeShape(call) ==
    /\ Len(call.envelopes) = (IF call.pc = "done" THEN 1 ELSE 0)
    /\ call.pc = "done" =>
          LET e == call.envelopes[1]
          IN /\ Len(e.content) = 1
             /\ e.content[1].type = "text"
             /\ IF call.outcome.ok
                THEN /\ ~Has(e, "isError")
                     /\ e.content[1].text
                           = JSONStringify(Serialised(call.name, call.outcome.value))
                ELSE IsErrorEnvelope(e)

NoJSONObject(text) ==
    ~ \E i, j \in DOMAIN text : i < j /\ text[i] = "{" /\ text[j] = "}"

Answered(call) == call.pc = "done" /\ Has(call.answer, "text") /\ call.answer.ok

ExtractionFailed(call) ==
    /\ IsErrorEnvelope(call.envelopes[1])
    /\ Document(call.envelopes[1]).error = <<"Failed to extract JSON from AI response">>

\* C6 (as stated): for generate_video_script and for generate_storyboard,
\* provider text that contains no JSON object makes the call return an error
\* envelope whose message says that extraction failed.
BothStrict ==
    \A c \in Started :
        LET call == calls[c]
        IN (/\ call.name \in {"generate_video_script", "generate_storyboard"}
            /\ Answered(call)
            /\ NoJSONObject(call.answer.text)) => ExtractionFailed(call)

\* C6 (amended): on provider text that contains no JSON object,
\* generate_video_script returns an error envelope whose message says that
\* extraction failed, and generate_storyboard returns a success envelope
\* whose document is the storyboard without shots.
ScriptStrictStoryboardLenient ==
    \A c \in Started :
        LET call == calls[c]
        IN (Answered(call) /\ NoJSONObject(call.answer.text)) =>
              /\ call.name = "generate_video_script" => ExtractionFailed(call)
              /\ call.name = "generate_storyboard" =>
                    /\ ~Has(call.envelopes[1], "isError")
                    /\ Document(call.envelopes[1]) = [shots |-> <<>>]

ScriptStrictStoryboardLenientWitness ==
    \E c \in Done :
        LET call == calls[c]
        IN /\ call.name = "generate_storyboard"
           /\ Answered(call)
           /\ NoJSONObject(call.answer.text)
           /\ ~Has(call.envelopes[1], "isError")
           /\ Document(call.envelopes[1]) = [shots |-> <<>>]

LenientTools ==
    {"generate_viral_ideas", "predict_virality", "repurpose_content", "optimize_seo",
     "generate_thumbnail_concepts", "run_ab_test"}

NoBrackets(text) == "{" \notin Range(text) /\ "[" \notin Range(text)

\* the document carries nothing: no member at all, or one empty list
EmptyDocument(name, doc) ==
    CASE name = "generate_viral_ideas" -> doc.ideas = <<>> /\ doc.count = 0
      [] name = "generate_thumbnail_concepts" -> doc.concepts = JArr(<<>>)
      [] OTHER -> \/ DOMAIN doc = {}
                  \/ DOMAIN doc = {"clips"} /\ doc.clips = <<>>
                  \/ DOMAIN doc = {"variants"} /\ doc.variants = <<>>

\* C7 (as stated): for each of the six lenient handlers, provider text with
\* no '{' and no '[' makes the call return a success envelope that carries
\* an empty default: an empty list, or an empty or clip-less object.
LenientEmptyDefault ==
    \A c \in Started :
        LET call == calls[c]
        IN (call.name \in LenientTools /\ Answered(call) /\ NoBrackets(call.answer.text)) =>
              /\ ~Has(call.envelopes[1], "isError")
              /\ EmptyDocument(call.name, Document(call.envelopes[1]))

\* C7 (amended): for each of the six lenient handlers, provider text with
\* no '{' and no '[' makes the call return a success envelope that carries
\* the handler's default: an empty list or an empty or clip-less object,
\* except for predict_virality, whose default is the object of overallScore 50.
LenientDefault ==
    \A c \in Started :
        LET call == calls[c]
        IN (call.name \in LenientTools /\ Answered(call) /\ NoBrackets(call.answer.text)) =>
              /\ ~Has(call.envelopes[1], "isError")
              /\ IF call.name = "predict_virality"
                 THEN Document(call.envelopes[1]) = [overallScore |-> 50]
                 ELSE EmptyDocument(call.name, Document(call.envelopes[1]))

LenientDefaultWitness ==
    \E c \in Done :
        LET call == calls[c]
        IN /\ call.name = "predict_virality"
           /\ Answered(call)
           /\ NoBrackets(call.answer.text)
           /\ ~Has(call.envelopes[1], "isError")
           /\ Document(call.envelopes[1]) = [overallScore |-> 50]

-----------------------------------------------------------------------------
(* Properties of generateViralIdeas (SpecIdeas)                            *)

ArrayElements == SelectSeq(ideasText, LAMBDA t : t \in IdeaTok)

\* the provider's text is prose around one array of elements
IsArrayText == ideasText = <<"p", "[">> \o ArrayElements \o <<"]", "p">>

Passing == SelectSeq(ArrayElements, LAMBDA t : ViralIdeaValid(IdeaTable[t]))

\* C8: when the provider's text holds an array, the call succeeds whichever
\* elements fail ViralIdeaSchema; the returned ideas are the passing
\* elements, one for one and in their original order, none of the failing
\* ones, and count is the number of returned ideas.
IdeasFiltered ==
    (ideasOut.run /\ IsArrayText) =>
        LET e == ideasOut.envelope
            doc == e.content[1].text.json
        IN /\ ~Has(e, "isError")
           /\ doc.count = Len(doc.ideas)
           /\ Len(doc.ideas) = Len(Passing)
           /\ \A i \in DOMAIN doc.ideas :
                 /\ doc.ideas[i].id = IdeaTable[Passing[i]].id
                 /\ ViralIdeaValid(doc.ideas[i])

IdeasFilteredWitness ==
    /\ ideasOut.run
    /\ IsArrayText
    /\ Len(ArrayElements) = 5
    /\ Len(Passing) = 3
    /\ ~Has(ideasOut.envelope, "isError")
    /\ ideasOut.envelope.content[1].text.json.count = 3

-----------------------------------------------------------------------------
(* Properties of optimizePostingSchedule (SpecSchedule)                    *)

HasHistory == Has(fin, "historicalPerformance") /\ Len(fin.historicalPerformance) > 0

HourOf(i) == GetHours(fin.historicalPerformance[i].postTime)

Buckets == {HourOf(i) : i \in DOMAIN fin.historicalPerformance}

EngagementSum(h) ==
    LET F[n \in 0..Len(fin.historicalPerformance)] ==
            IF n = 0 THEN 0
            ELSE F[n - 1] + (IF HourOf(n) = h
                             THEN fin.historicalPerformance[n].engagement ELSE 0)
    IN F[Len(fin.historicalPerformance)]

SampleCount(h) == Cardinality({i \in DOMAIN fin.historicalPerformance : HourOf(i) = h})

\* mean engagement of hour g >= mean engagement of hour h
MeanAtLeast(g, h) ==
    EngagementSum(g) * SampleCount(h) >= EngagementSum(h) * SampleCount(g)

Times == fout.result.optimalPostingTimes

RankedHour(i) == CHOOSE h \in Buckets : TimeString(h) = Times[i].time

\* C9: with historical samples, the recommended times are the hours of day
\* of the samples, ranked by the arithmetic mean of the engagement of their
\* samples, descending, whatever the views, and cut to the top 3; for the
\* documented samples the means are 60 (hour 9) and 90 (hour 14) and the
\* first time is 14:00.
RankedByMeanEngagement ==
    (fout.run /\ HasHistory) =>
        /\ Len(Times) = (IF Cardinality(Buckets) < 3 THEN Cardinality(Buckets) ELSE 3)
        /\ \A i \in DOMAIN Times : \E h \in Buckets : TimeString(h) = Times[i].time
        /\ \A i, j \in DOMAIN Times :
              i < j => /\ RankedHour(i) # RankedHour(j)
                       /\ MeanAtLeast(RankedHour(i), RankedHour(j))
        /\ \A h \in Buckets :
              (\A i \in DOMAIN Times : RankedHour(i) # h) =>
                  \A i \in DOMAIN Times : MeanAtLeast(RankedHour(i), h)
        /\ fin.historicalPerformance = SampleHistory =>
              LET top == TopHours(SampleHistory)
              IN /\ top[1].hour = 14 /\ top[1].avgEngagement.n = 90 * top[1].avgEngagement.d
                 /\ top[2].hour = 9 /\ top[2].avgEngagement.n = 60 * top[2].avgEngagement.d
                 /\ Times[1].time = <<"14", ":00">>

RankedByMeanEngagementWitness ==
    /\ fout.run
    /\ HasHistory
    /\ fin.historicalPerformance = SampleHistory
    /\ Len(Times) = 2
    /\ Times[1].time = <<"14", ":00">>
    /\ Times[2].time = <<"09", ":00">>

\* C21: of two recommended hours with the same mean engagement the lower
\* hour comes first, in whichever order the samples were supplied; the
\* bucket of unparsable dates comes after every hour it ties with; and a
\* bucket that is left out ties with a recommended one only if its hour is
\* higher.
TiesByAscendingHour ==
    (fout.run /\ HasHistory) =>
        /\ \A i, j \in DOMAIN Times :
              (i < j /\ MeanAtLeast(RankedHour(j), RankedHour(i)))
                  => RankedHour(i) < RankedHour(j)
        /\ \A h \in Buckets :
              (\A i \in DOMAIN Times : RankedHour(i) # h) =>
                  \A i \in DOMAIN Times :
                      MeanAtLeast(h, RankedHour(i)) => RankedHour(i) < h

TiesByAscendingHourWitness ==
    /\ fout.run
    /\ HasHistory
    /\ Len(fin.historicalPerformance) = 2
    /\ fin.historicalPerformance[1].postTime = "2025-03-03T14:30"
    /\ fin.historicalPerformance[2].postTime = "2025-03-04T09:45"
    /\ fin.historicalPerformance[1].engagement = fin.historicalPerformance[2].engagement
    /\ Times[1].time = <<"09", ":00">>
    /\ Times[2].time = <<"14", ":00">>

\* C20: without historical samples (the member absent or an empty array)
\* the times are the three baseline times of the platform; with at least one
\* sample they are hours of the samples only, min(3, number of distinct
\* hours) of them, pairwise distinct and not filled up from the baseline
\* table; in both cases the recommendation text names the first time and
\* the time zone.
DefaultsOrHistory ==
    fout.run =>
        LET times == [i \in DOMAIN Times |-> Times[i].time]
        IN /\ ~HasHistory =>
                /\ times = BaselineTimes(fin.platform)
                /\ Len(times) = 3
                /\ fin.platform = "tiktok" =>
                      times = <<<<"07", ":00">>, <<"12", ":00">>, <<"19", ":00">>>>
                /\ fin.platform = "youtube" =>
                      times = <<<<"14", ":00">>, <<"17", ":00">>, <<"20", ":00">>>>
           /\ HasHistory =>
                /\ Len(times) = (IF Cardinality(Buckets) < 3 THEN Cardinality(Buckets) ELSE 3)
                /\ \A i \in DOMAIN times : \E h \in Buckets : times[i] = TimeString(h)
                /\ \A i, j \in DOMAIN times : i # j => times[i] # times[j]
           /\ fout.result.recommendation =
                <<"Post on ">> \o times[1] \o <<" ", fin.timezone, " for maximum reach.">>

DefaultsOrHistoryWitness ==
    /\ fout.run
    /\ HasHistory
    /\ Cardinality(Buckets) = 1
    /\ Len(Times) = 1
    /\ Times[1].time = <<"20", ":00">>
    /\ fout.result.recommendation =
            <<"Post on ", "20", ":00", " ", "America/New_York", " for maximum reach.">>

-----------------------------------------------------------------------------
(* Properties of scrapeTrendingTopics (SpecTrends)                         *)

Requested(p) == p \in Range(trIn.platforms)

\* the reddit block ran to its end: the request answered and every post of
\* the answer could be read
RedditSucceeded ==
    /\ trIn.reddit.ok
    /\ \A i \in DOMAIN trIn.reddit.posts : trIn.reddit.posts[i].hasData

TopicsOfSucceeded ==
    (IF Requested("youtube") /\ trIn.youtube.ok
     THEN Range(YouTubeTopics(trIn.niche)) ELSE {})
    \cup (IF Requested("twitter") THEN Range(TwitterTopics(trIn.niche)) ELSE {})
    \cup (IF Requested("reddit") /\ RedditSucceeded
          THEN {ToLowerCase(trIn.reddit.posts[i].title) :
                    i \in {k \in DOMAIN trIn.reddit.posts : trIn.reddit.posts[k].title # <<>>}}
          ELSE {})
    \cup (IF Requested("google-trends") THEN Range(GoogleTopics(trIn.niche)) ELSE {})

\* C10: whichever sources fail, the scraper returns normally; its result
\* holds every topic of each requested source that succeeded, and holds no
\* topic twice.
ScraperResilient ==
    trOut.run =>
        /\ trOut.outcome.ok
        /\ TopicsOfSucceeded \subseteq Range(trOut.outcome.value)
        /\ \A i, j \in DOMAIN trOut.outcome.value :
              i # j => trOut.outcome.value[i] # trOut.outcome.value[j]

ScraperResilientWitness ==
    /\ trOut.run
    /\ trIn.platforms = <<"youtube", "reddit", "google-trends">>
    /\ trIn.youtube.ok
    /\ ~trIn.reddit.ok
    /\ trOut.outcome.ok
    /\ Range(YouTubeTopics(trIn.niche)) \cup Range(GoogleTopics(trIn.niche))
          \subseteq Range(trOut.outcome.value)

\* the topics pushed, in the order of the source blocks
Obtained ==
    (IF Requested("youtube") /\ trIn.youtube.ok THEN YouTubeTopics(trIn.niche) ELSE <<>>)
    \o (IF Requested("twitter") THEN TwitterTopics(trIn.niche) ELSE <<>>)
    \o (IF Requested("reddit") /\ trIn.reddit.ok
        THEN RedditTitles(trIn.reddit.posts) ELSE <<>>)
    \o (IF Requested("google-trends") THEN GoogleTopics(trIn.niche) ELSE <<>>)

FirstIndex(seq, x) == MinOf({i \in DOMAIN seq : seq[i] = x})

\* C11: the scraper's result holds no topic twice, holds exactly the topics
\* obtained from the requested sources, and lists them by first occurrence.
DedupFirstSeen ==
    trOut.run =>
        /\ trOut.outcome.ok
        /\ Range(trOut.outcome.value) = Range(Obtained)
        /\ \A i, j \in DOMAIN trOut.outcome.value :
              i < j => /\ trOut.outcome.value[i] # trOut.outcome.value[j]
                       /\ FirstIndex(Obtained, trOut.outcome.value[i])
                             < FirstIndex(Obtained, trOut.outcome.value[j])

DedupFirstSeenWitness ==
    /\ trOut.run
    /\ trOut.outcome.ok
    /\ Requested("youtube") /\ trIn.youtube.ok
    /\ Requested("reddit") /\ trIn.reddit.ok
    /\ <<"tech", " tutorial">> \in Range(RedditTitles(trIn.reddit.posts))
    /\ Len(trOut.outcome.value) < Len(Obtained)
    /\ trOut.outcome.value[1] = <<"tech", " tutorial">>

-----------------------------------------------------------------------------
(* Descriptor schemas against validators (Spec)                            *)

\* C16: for every call to a tool of the adapter, the inputSchema of the
\* tool's descriptor accepts the argument record exactly when the validator
\* of the call handler accepts it.
DescriptorMatchesValidator ==
    \A c \in Started :
        InRegistry(calls[c]) =>
            (DescriptorAccepts(calls[c].name, calls[c].raw)
                <=> SchemaIssues(calls[c].name, calls[c].raw) = <<>>)

-----------------------------------------------------------------------------
(* Dispatch (Spec)                                                         *)

\* C14: in every state of every call at most one handler has run, and at
\* most once; a call that names a tool of the adapter with valid arguments
\* has run the handler of that name exactly once, also after that handler
\* failed and the error envelope was returned; any other call has run none.
HandlerExactlyOnce ==
    \A c \in Started :
        /\ Len(calls[c].handlers) <= 1
        /\ Dispatched(calls[c]) <=> calls[c].handlers = <<calls[c].name>>
        /\ ~Dispatched(calls[c]) <=> calls[c].handlers = <<>>

HandlerExactlyOnceWitness ==
    \E c \in Done :
        /\ Dispatched(calls[c])
        /\ IsErrorEnvelope(calls[c].envelopes[1])
        /\ calls[c].handlers = <<"generate_voiceover">>
        /\ calls[c].ext = <<"huggingface">>

-----------------------------------------------------------------------------
(* Failed external requests (Spec)                                         *)

TrendSources == {"youtube", "reddit"}

NoRepeat(seq) == \A i, j \in DOMAIN seq : i # j => seq[i] # seq[j]

\* C15 as stated: a finished call during which any external request failed
\* has returned an error envelope.
AnyFailureFails ==
    \A c \in Done :
        calls[c].failed # <<>> => IsErrorEnvelope(calls[c].envelopes[1])

\* C15: no external capability is requested twice in a call; a finished call
\* whose generative-provider or text-to-speech request failed has returned
\* an error envelope; a failed trend-source fetch does not fail the call:
\* analyze_trending_topics never returns an error envelope once dispatched,
\* and a call that lost only trend sources returns no network error.
ProviderFailureFails ==
    \A c \in Started :
        LET call == calls[c]
        IN /\ NoRepeat(call.ext)
           /\ Range(call.failed) \subseteq Range(call.ext)
           /\ call.pc = "done" =>
                /\ Range(call.failed) \ TrendSources # {}
                        => IsErrorEnvelope(call.envelopes[1])
                /\ (call.name = "analyze_trending_topics" /\ Dispatched(call))
                        => ~IsErrorEnvelope(call.envelopes[1])
                /\ (call.failed # <<>> /\ Range(call.failed) \subseteq TrendSources)
                        => (call.outcome.ok \/ call.outcome.error # NetworkError)

ProviderFailureFailsWitness ==
    \E c \in Done :
        /\ calls[c].name = "generate_viral_ideas"
        /\ calls[c].failed = <<"youtube", "reddit">>
        /\ calls[c].ext = <<"youtube", "reddit", "gemini">>
        /\ ~IsErrorEnvelope(calls[c].envelopes[1])

-----------------------------------------------------------------------------
(* Validation of provider output in the idea-generator (Spec)              *)

\* C19: every success envelope of generate_viral_ideas built from a provider
\* answer carries only ideas that pass ViralIdeaSchema, and every success
\* envelope of predict_virality built from a provider answer carries a
\* prediction, that is at least the overall score the prompt asks for.
OutputValidated ==
    \A c \in Done :
        LET call == calls[c]
            e == call.envelopes[1]
        IN (Answered(call) /\ ~IsErrorEnvelope(e)) =>
              /\ call.name = "generate_viral_ideas" =>
                    \A i \in DOMAIN Document(e).ideas :
                        ViralIdeaValid(Document(e).ideas[i])
              /\ call.name = "predict_virality" => Has(Document(e), "overallScore")

-----------------------------------------------------------------------------
(* Export templates (SpecExport)                                           *)

XmlFormats == {"fcpxml", "premiere-xml"}

ExportValid == SchemaIssues("export_editing_project", exIn) = <<>>

Exported == CHOOSE f \in exOut.files : TRUE

Lines == Range(Exported.content)

TitleMarker == <<"TITLE: AI Generated Video">>

Timecodes == {"00:00:00:00", "00:00:10:00"}

\* event number, reel, track, transition and four timecodes
WellFormedEdit(line) ==
    /\ Len(line) = 8
    /\ line[1] = "001"
    /\ \A i \in 5..8 : line[i] \in Timecodes

AssetLine(path) ==
    <<"<asset id=\"r2\" src=\"file://">> \o path
        \o <<"\" start=\"0s\" duration=\"60s\" hasAudio=\"1\"/>">>

PathurlLine(path) ==
    <<"<track><clipitem><file><pathurl>file://">> \o path
        \o <<"</pathurl></file></clipitem></track>">>

AudioRefLine == <<"<audio ref=\"r2\" offset=\"0s\" duration=\"60s\"/>">>

\* a line that is an asset, audio-reference or track element
Refers(line) ==
    line # <<>> /\ line[1] \in {AssetLine(<<>>)[1], PathurlLine(<<>>)[1], AudioRefLine[1]}

\* C13 as stated: a request that names the format davinci-xml and nothing
\* else yields a document that starts with the title marker and has an edit
\* line; for an XML format a voiceoverPath that is provided appears in the
\* asset or pathurl element, and one that is not provided leaves no asset,
\* audio or track element.
ExportTemplatesAsStated ==
    exOut.run =>
        /\ exIn = [format |-> "davinci-xml"] =>
              /\ exOut.files # {}
              /\ Exported.content[1] = TitleMarker
              /\ \E line \in Lines : WellFormedEdit(line)
        /\ (ExportValid /\ exIn.format \in XmlFormats) =>
              IF Has(exIn, "voiceoverPath")
              THEN AssetLine(exIn.voiceoverPath) \in Lines
                   \/ PathurlLine(exIn.voiceoverPath) \in Lines
              ELSE \A line \in Lines : ~Refers(line)

\* C13: a request without storyboard or with no known format is rejected
\* and writes nothing.  Otherwise one document is written: for davinci-xml,
\* whatever the optional members, its first line is the title marker and it
\* has a well-formed edit line; for fcpxml a non-empty voiceoverPath appears
\* verbatim in the src of the asset element, together with the audio
\* reference, and for premiere-xml inside the pathurl element; for both, an
\* absent or empty voiceoverPath leaves no asset, audio-reference or track
\* element.
ExportTemplates ==
    exOut.run =>
        IF ~ExportValid
        THEN IsErrorEnvelope(exOut.envelope) /\ exOut.files = {}
        ELSE /\ Cardinality(exOut.files) = 1
             /\ ~IsErrorEnvelope(exOut.envelope)
             /\ exIn.format = "davinci-xml" =>
                   /\ Exported.content[1] = TitleMarker
                   /\ \E i \in 2..Len(Exported.content) : WellFormedEdit(Exported.content[i])
             /\ exIn.format \in XmlFormats =>
                   IF Truthy(exIn, "voiceoverPath")
                   THEN /\ exIn.format = "fcpxml" =>
                              /\ AssetLine(exIn.voiceoverPath) \in Lines
                              /\ AudioRefLine \in Lines
                        /\ exIn.format = "premiere-xml" =>
                              PathurlLine(exIn.voiceoverPath) \in Lines
                   ELSE \A line \in Lines : ~Refers(line)

ExportTemplatesWitness ==
    /\ exOut.run
    /\ ExportValid
    /\ exIn.format = "premiere-xml"
    /\ Has(exIn, "voiceoverPath")
    /\ exIn.voiceoverPath = <<"/tmp/voiceover-x.mp3">>
    /\ <<"<track><clipitem><file><pathurl>file://", "/tmp/voiceover-x.mp3",
          "</pathurl></file></clipitem></track>">> \in Lines

-----------------------------------------------------------------------------
(* Overlapping calls (SpecConcurrent)                                      *)

\* C17: no file under /tmp has been written more than once, and two finished
\* calls never name the same artifact path.
DistinctArtifactPaths ==
    /\ \A f \in files : f.writes = 1
    /\ \A c, d \in Done :
          (c # d /\ calls[c].wrote # <<>>) => calls[c].wrote # calls[d].wrote

\* the answer the call received from a capability it awaited
ResponseOf(call, capability) ==
    call.responses[CHOOSE i \in DOMAIN call.ext : call.ext[i] = capability]

SourceAnswer(call, source) ==
    IF source \in Range(call.ext) THEN ResponseOf(call, source)
    ELSE [ok |-> FALSE, posts |-> <<>>]

\* what the call returns when it is the only call of the process, from its
\* arguments, the environment and the answers it received
Solo(call, environment) ==
    LET name == call.name
        args == ArgsOf(call)
        issues == SchemaIssues(name, call.raw)
    IN IF name \notin Branches(call.adapter)
       THEN [ok |-> FALSE, error |-> UnknownTool(name)]
       ELSE IF issues # <<>> THEN [ok |-> FALSE, error |-> ZodError(issues)]
       ELSE IF name \in GeminiTools
       THEN IF "GEMINI_API_KEY" \notin environment THEN MissingGeminiKey(name)
            ELSE IF ResponseOf(call, "gemini").ok
            THEN AfterGemini(name, ResponseOf(call, "gemini").text)
            ELSE [ok |-> FALSE, error |-> ProviderError]
       ELSE IF name = "analyze_trending_topics"
       THEN Ok(AnalyzeTrendsResult(args,
                ScrapeTrendingTopics(args.niche, args.platforms,
                                     SourceAnswer(call, "youtube"),
                                     SourceAnswer(call, "reddit")).value))
       ELSE IF name = "optimize_posting_schedule"
       THEN Ok(OptimizePostingSchedule(args))
       ELSE IF name = "generate_voiceover"
       THEN IF VoiceoverKey(args.provider) \notin environment
            THEN MissingVoiceoverKey(args.provider)
            ELSE IF ~ResponseOf(call, args.provider).ok
            THEN [ok |-> FALSE, error |-> NetworkError]
            ELSE IF call.wrote = <<>> THEN [ok |-> FALSE, error |-> WriteError]
            ELSE Ok(VoiceoverResult(args, args.provider,
                                    VoiceoverPath(call.traceId, args.format)))
       ELSE IF call.wrote = <<>> THEN [ok |-> FALSE, error |-> WriteError]
       ELSE Ok(ExportResult(args, ProjectPath(call.traceId, args.format)))

-----------------------------------------------------------------------------
(* Discovery (SpecDiscovery)                                               *)

ListedBy(adapter) == {r \in listed : r.adapter = adapter}

UniqueNames(tools) ==
    \A i, j \in DOMAIN tools : i # j => tools[i].name # tools[j].name

\* C12: in every adapter any two discovery responses carry the same ordered
\* descriptor list, the one defined at process start, whatever calls were
\* received before or between them, no discovery request or call changes
\* the registry, and the names in the list are pairwise distinct.
DiscoveryIdempotent ==
    /\ registry = ToolArrays
    /\ \A adapter \in Adapters :
          /\ \A r, q \in ListedBy(adapter) : r.tools = q.tools
          /\ \A r \in ListedBy(adapter) :
                /\ r.tools = Descriptors(Registry(adapter))
                /\ [i \in DOMAIN r.tools |-> r.tools[i].name] = Registry(adapter)
                /\ UniqueNames(r.tools)

DiscoveryIdempotentWitness ==
    /\ \E c \in Done : IsErrorEnvelope(calls[c].envelopes[1])
    /\ \E r, q \in ListedBy("script") :
          /\ ~r.afterCall /\ q.afterCall
          /\ Len(r.tools) = 4
          /\ r.tools[1].name = "generate_video_script"

-----------------------------------------------------------------------------
(* Numeric bounds and defaults of the validators (Spec)                    *)

Entered(call) == call.handlers = <<call.name>>

IntegerWithin(n, lo, hi) == ~n.frac /\ lo <= n.v /\ n.v <= hi

\* C22: generate_viral_ideas (its other arguments valid) enters its handler
\* exactly when count is an integer with 10 <= count <= 50, run_ab_test
\* exactly when variants is omitted or an integer with 2 <= variants <= 5,
\* and the arguments a handler was entered with hold '7d', 'casual',
\* 'huggingface', 'mp3', 45 and 3 for an omitted trendWindow, tone, provider,
\* format, clipDuration and variants; a successful voiceover reports the
\* defaulted provider and format.
InclusiveBoundsAndDefaults ==
    \A c \in Started :
        LET call == calls[c]
            raw == call.raw
            args == ArgsOf(call)
            omitted(f) == Entered(call) /\ ~Has(raw, f)
        IN InRegistry(call) =>
              /\ (/\ call.name = "generate_viral_ideas"
                  /\ GenerateIdeasArgsIssues(With(raw, "count", Num(10))) = <<>>) =>
                    (Entered(call) <=>
                        (Has(raw, "count") /\ IntegerWithin(raw.count, 10, 50)))
              /\ (/\ call.name = "run_ab_test"
                  /\ RunABTestArgsIssues(Without(raw, "variants")) = <<>>) =>
                    (Entered(call) <=>
                        (Has(raw, "variants") => IntegerWithin(raw.variants, 2, 5)))
              /\ (call.name = "generate_viral_ideas" /\ omitted("trendWindow")) =>
                    args.trendWindow = "7d"
              /\ (call.name = "generate_video_script" /\ omitted("tone")) =>
                    args.tone = "casual"
              /\ (call.name = "generate_voiceover" /\ omitted("provider")) =>
                    /\ args.provider = "huggingface"
                    /\ (call.pc = "done" /\ ~IsErrorEnvelope(call.envelopes[1])) =>
                          Document(call.envelopes[1]).provider = "huggingface"
              /\ (call.name = "generate_voiceover" /\ omitted("format")) =>
                    /\ args.format = "mp3"
                    /\ (call.pc = "done" /\ ~IsErrorEnvelope(call.envelopes[1])) =>
                          Document(call.envelopes[1]).format = "mp3"
              /\ (call.name = "repurpose_content" /\ omitted("clipDuration")) =>
                    args.clipDuration = 45
              /\ (call.name = "run_ab_test" /\ omitted("variants")) =>
                    args.variants = Num(3)

InclusiveBoundsAndDefaultsWitness ==
    \E c \in Started :
        LET call == calls[c]
        IN /\ call.name = "generate_viral_ideas"
           /\ call.adapter = "idea"
           /\ call.raw.count = Num(50)
           /\ ~Has(call.raw, "trendWindow")
           /\ Entered(call)
           /\ ArgsOf(call).trendWindow = "7d"

-----------------------------------------------------------------------------
(* Credentials are read by each call (SpecCredentials)                     *)

CredentialFreeTools ==
    {"analyze_trending_topics", "optimize_posting_schedule", "export_editing_project"}

MissingCredentialFailure(call) ==
    /\ call.pc = "done"
    /\ ~call.outcome.ok
    /\ call.outcome.error.message = <<RequiredCredential(call), " not found">>

\* discovery answers with the registry, and a finished call of a tool that
\* needs no credential has returned what it returns under the empty
\* environment: a success envelope, unless its file could not be written
CredentialFreeSucceed ==
    /\ \A r \in listed : r.tools = Descriptors(Registry(r.adapter))
    /\ \A c \in Done :
          LET call == calls[c]
          IN (Dispatched(call) /\ call.name \in CredentialFreeTools) =>
                /\ call.envelopes =
                      <<EnvelopeOf(call.name, Solo(call, {}), call.traceId)>>
                /\ IsErrorEnvelope(call.envelopes[1]) =>
                      (call.name = "export_editing_project" /\ call.wrote = <<>>
                       /\ call.outcome.error = WriteError)

\* a request received while its credential is in the environment goes on to
\* its provider, and one received while it is absent fails on it, whatever
\* the earlier calls of the process returned
ReadAtCall ==
    \A c \in DOMAIN calls :
        (/\ calls[c].pc = "idle"
         /\ calls'[c].pc # "idle"
         /\ Dispatched(calls'[c])
         /\ calls'[c].name \in CredentialTools)
        => IF RequiredCredential(calls'[c]) \in env
           THEN calls'[c].pc = "gemini" /\ calls'[c].envelopes = <<>>
           ELSE MissingCredentialFailure(calls'[c])

\* C23: credentials are read from the environment by each call: discovery
\* and the tools that need no credential succeed whatever the environment
\* holds (a file that cannot be written aside), and a call received while
\* its credential is present proceeds to its provider even when an earlier
\* call of the process failed for want of that credential.
CredentialsReadPerCall == []CredentialFreeSucceed /\ [][ReadAtCall]_vars

CredentialsReadPerCallWitness ==
    /\ Done = {1, 2}
    /\ calls[1].name = "predict_virality"
    /\ Dispatched(calls[1])
    /\ MissingCredentialFailure(calls[1])
    /\ calls[2].name = "predict_virality"
    /\ calls[2].raw = calls[1].raw
    /\ Answered(calls[2])
    /\ ~IsErrorEnvelope(calls[2].envelopes[1])
    /\ \E r \in listed : ~r.afterCall

-----------------------------------------------------------------------------
(* Termination of a call (SpecLive)                                        *)

Awaiting(call) == call.pc \notin {"idle", "done"}

EnvelopeOnReturn ==
    \A c \in Started : Len(calls[c].envelopes) = IF calls[c].pc = "done" THEN 1 ELSE 0

\* a call at an await moves on only when its request settles: the step
\* records one more answer of the capability the call was waiting for
OnlyAnAnswerResumes ==
    \A c \in DOMAIN calls :
        (Awaiting(calls[c]) /\ calls'[c] # calls[c]) =>
            /\ Len(calls'[c].responses) = Len(calls[c].responses) + 1
            /\ calls'[c].ext[Len(calls[c].ext)] = calls[c].pc
            /\ Len(calls[c].responses) = Len(calls[c].ext) - 1

\* C24: when every external request eventually settles, a received call
\* eventually returns, and it returns exactly one envelope; a call at an
\* await leaves it only by the answer to its request (no timeout, no
\* cancellation), so it stays there for as long as no answer comes.
RunsToCompletion ==
    /\ (calls[1].pc # "idle") ~> (calls[1].pc = "done" /\ Len(calls[1].envelopes) = 1)
    /\ []EnvelopeOnReturn
    /\ [][OnlyAnAnswerResumes]_vars

RunsToCompletionWitness ==
    \E c \in Done :
        /\ calls[c].name = "generate_viral_ideas"
        /\ calls[c].ext = <<"youtube", "reddit", "gemini">>
        /\ Len(calls[c].responses) = 3
        /\ Len(calls[c].envelopes) = 1

-----------------------------------------------------------------------------
(* A matched region that is not JSON (Spec)                                *)

ArrayTools == {"generate_viral_ideas", "generate_thumbnail_concepts"}

\* the region the handler's greedy pattern finds in the text: from the first
\* opening to the last closing bracket of the handler's kind, or none
Region(name, text) ==
    LET open == IF name \in ArrayTools THEN "[" ELSE "{"
        close == IF name \in ArrayTools THEN "]" ELSE "}"
        os == {i \in DOMAIN text : text[i] = open}
        cs == {j \in DOMAIN text : text[j] = close}
        pairs == {r \in os \X cs : r[1] < r[2]}
    IN IF pairs = {} THEN <<>>
       ELSE LET first == CHOOSE i \in os : \A k \in os : i <= k
                last == CHOOSE j \in cs : \A k \in cs : k <= j
            IN SubSeq(text, first, last)

\* prose or a stray bracket between the outer brackets
Malformed(region) ==
    \E i \in 2..(Len(region) - 1) : region[i] \in {"p", "{", "}", "[", "]"}

\* C25: in each of the eight generative handlers, when the provider text
\* holds a region of the handler's pattern and the region is not valid JSON,
\* the call has returned an error envelope whose message is the parse
\* failure, never a success envelope.
MalformedRegionFails ==
    \A c \in Started :
        LET call == calls[c]
        IN (/\ call.name \in GeminiTools
            /\ Answered(call)
            /\ Region(call.name, call.answer.text) # <<>>
            /\ Malformed(Region(call.name, call.answer.text))) =>
              /\ Len(call.envelopes) = 1
              /\ IsErrorEnvelope(call.envelopes[1])
              /\ Document(call.envelopes[1]).error = <<"Unexpected token in JSON">>
              /\ call.outcome.error.name = "SyntaxError"

MalformedRegionFailsWitness ==
    \E c \in Done :
        LET call == calls[c]
        IN /\ call.name = "generate_storyboard"
           /\ Answered(call)
           /\ Region(call.name, call.answer.text) = <<"{", "p", "}">>
           /\ IsErrorEnvelope(call.envelopes[1])
           /\ Document(call.envelopes[1]).error = <<"Unexpected token in JSON">>

-----------------------------------------------------------------------------
(* The form of the recommended times (SpecSchedule)                        *)

TwoDigits == {"0", "1", "2"} \X {"0", "1", "2", "3", "4", "5", "6", "7", "8", "9"}

\* HH:00 with HH a two-digit hour of the day
HourStrings ==
    {<<d[1] \o d[2], ":00">> : d \in {e \in TwoDigits : e[1] # "2" \/ e[2] \in {"0", "1", "2", "3"}}}

\* C26: the result of optimize_posting_schedule holds between 1 and 3
\* recommended times and each is HH:00 with HH in 00..23, whatever strings
\* the samples carry as postTime.
TimesWellFormed ==
    fout.run =>
        /\ Len(Times) \in 1..3
        /\ \A i \in DOMAIN Times : Times[i].time \in HourStrings

-----------------------------------------------------------------------------
(* Files written by the calls (Spec)                                       *)

WritingTools == {"generate_voiceover", "export_editing_project"}

Succeeded(call) == call.pc = "done" /\ ~IsErrorEnvelope(call.envelopes[1])

\* the path a success envelope of a writing tool returns
ReturnedPath(call) ==
    IF call.name = "generate_voiceover" THEN Document(call.envelopes[1]).audioPath
    ELSE Document(call.envelopes[1]).projectPath

\* the call failed on an unknown tool, a schema violation, a missing
\* credential or a failed provider request
FailedBeforeWrite(call) ==
    /\ call.pc = "done"
    /\ IsErrorEnvelope(call.envelopes[1])
    /\ \/ ~InRegistry(call)
       \/ SchemaIssues(call.name, call.raw) # <<>>
       \/ call.outcome.error.message = <<RequiredCredential(call), " not found">>
       \/ call.outcome.error.message =
             <<"ELEVENLABS_API_KEY", " not found", ". Set it or use provider: \"huggingface\"">>
       \/ call.failed # <<>>

-----------------------------------------------------------------------------
(* Which failure a call reports (SpecLive: the environment is fixed while  *)
(* the call runs)                                                          *)

Providers == {"gemini", "elevenlabs", "huggingface"}

\* C28: a finished call reports the first failure in step order: an unknown
\* tool whatever its arguments and the environment; else a schema violation
\* whatever the environment; else a missing credential, without any request
\* having been made; a provider failure is reported only by a call that
\* passed all three.
FailurePrecedence ==
    \A c \in Done :
        LET call == calls[c]
            issues == SchemaIssues(call.name, call.raw)
            error == Document(call.envelopes[1]).error
        IN /\ ~InRegistry(call) =>
                 (IsErrorEnvelope(call.envelopes[1]) /\ error = <<"Unknown tool: ", call.name>>)
           /\ (InRegistry(call) /\ issues # <<>>) =>
                 /\ IsErrorEnvelope(call.envelopes[1])
                 /\ call.outcome.error.name = "ZodError"
                 /\ error = ZodError(issues).message
           /\ (/\ Dispatched(call)
               /\ call.name \in CredentialTools
               /\ RequiredCredential(call) \notin env) =>
                 /\ IsErrorEnvelope(call.envelopes[1])
                 /\ RequiredCredential(call) \in Range(error)
                 /\ " not found" \in Range(error)
                 /\ call.ext = <<>>
           /\ (Range(call.failed) \cap Providers # {}) =>
                 /\ Dispatched(call)
                 /\ RequiredCredential(call) \in env
                 /\ IsErrorEnvelope(call.envelopes[1])
                 /\ error \in {ProviderError.message, NetworkError.message}

FailurePrecedenceWitness ==
    \E c \in Done :
        LET call == calls[c]
        IN /\ env = {}
           /\ call.name = "run_ab_test"
           /\ call.adapter = "growth"
           /\ SchemaIssues(call.name, call.raw) # <<>>
           /\ call.outcome.error.name = "ZodError"
           /\ call.ext = <<>>

-----------------------------------------------------------------------------
(* The provider of generate_voiceover (SpecVoiceover)                      *)

-----------------------------------------------------------------------------
(* A parsed object without its collection (SpecFinish)                     *)

\* the members of the object in the text, in order
MembersOf(text) == SubSeq(text, 3, Len(text) - 2)

HasObject(text) == Len(text) >= 4

HasMember(text, k) == \E i \in DOMAIN MembersOf(text) : MemberKey(MembersOf(text)[i]) = k

CollectionOf(name) ==
    CASE name = "repurpose_content" -> "clips"
      [] name = "run_ab_test" -> "variants"
      [] name = "generate_video_script" -> "scenes"
      [] name = "generate_storyboard" -> "shots"

\* the clips member is absent or is not a collection (a number, null)
NoClipsCollection(text) ==
    \/ ~HasMember(text, "clips")
    \/ LastMember(MembersOf(text), "clips") \in {"clips:3", "clips:null"}

ClipsUnreadable(text) ==
    \/ ~HasMember(text, "clips")
    \/ LastMember(MembersOf(text), "clips") = "clips:null"

====
